---- MODULE Spec2Model ----
(***************************************************************************)
(* A model of SQLobj (src/mysql.py): the column types, the table           *)
(* metamodel and registry, the query sets, the record binding and the      *)
(* interactive migration.                                                   *)
(*                                                                         *)
(* SQL text is a sequence of tokens.  Every token stands for the exact     *)
(* characters between its quotes, and the tokens are cut so that the       *)
(* code's slices (query[:-2], query[:-5]) fall on token boundaries.        *)
(* A Python value is a record [k, v]: k its kind, v the tokens of str(x).  *)
(* The Session is the external collaborator: it records what it is sent,   *)
(* and its cursor's rows are inputs.                                       *)
(***************************************************************************)
EXTENDS Integers, Sequences, FiniteSets, TLC

\* ------------------------------------------------------------------ bounds
MaxKw == 2
MaxRows == 2

\* ----------------------------------------------------------- Python values
PyInt(t) == [k |-> "int", v |-> <<t>>]
PyStr(ts) == [k |-> "str", v |-> ts]
PyNone == [k |-> "none", v |-> <<"None">>]
\* a Model instance as an attribute value: v names its class
PyModel(c) == [k |-> "model", v |-> <<c>>]
\* a list of n Model instances of class c
PyList(c, n) == [k |-> "list", v |-> [i \in 1..n |-> c]]
\* a _SelectQuery object holding the text q
PyQuery(q) == [k |-> "query", v |-> q]
\* the _Session object handed over where a row mapping is expected
PySession == [k |-> "session", v |-> <<"session">>]
\* RawFormat(value): SQL text to be written as it is
RawFormat(value) == [k |-> "raw", v |-> <<value>>]

\* str(x), as the format strings apply it
Str(x) == x.v

\* ------------------------------------------------------------ text helpers
\* the number of characters of a token that a slice can cut off
TokLen(t) ==
  CASE t = ", " -> 2
    [] t = " (" -> 2
    [] t = "T " -> 2
    [] t = " AND " -> 5
    [] t = "HERE " -> 5
    [] t = " ON " -> 4
    [] t = "ROM " -> 4
    [] t = ") ON DUPLICATE KEY UPDATE " -> 26
    [] t = ",\n" -> 2
    [] OTHER -> 1

\* text[:-n]; a slice that would split a token leaves the token "<cut>"
RECURSIVE Chop(_, _)
Chop(text, n) ==
  IF n = 0 \/ text = <<>> THEN text
  ELSE LET last == text[Len(text)]
           front == SubSeq(text, 1, Len(text) - 1)
       IN IF TokLen(last) <= n THEN Chop(front, n - TokLen(last))
          ELSE Append(front, "<cut>")

\* value.replace("'", "\\'").replace('"', '\\"')
EscapeTok(t) == IF t = "'" THEN "\\'" ELSE IF t = "\"" THEN "\\\"" ELSE t
Escape(ts) == [i \in 1..Len(ts) |-> EscapeTok(ts[i])]

RECURSIVE Flatten(_)
Flatten(ss) == IF ss = <<>> THEN <<>> ELSE ss[1] \o Flatten(Tail(ss))

\* ------------------------------------------------------------ column types
\* the other Python values the column types convert
PyBool(b) == [k |-> "bool", v |-> <<IF b THEN "True" ELSE "False">>]
PyBytes(ts) == [k |-> "bytes", v |-> ts]
\* a member of class Color(enum.Enum) with RED = 'RED' and BLUE = 'BLUE':
\* str(member) is the class name, a dot and the member's name
PyEnum(name) == [k |-> "enum", v |-> <<"Color.", name>>]
\* a list of values
PySeq(xs) == [k |-> "seq", v |-> xs]
\* a dict with one key
PyDict(key, x) == [k |-> "dict", v |-> <<key, x>>]
\* a datetime
PyDatetime(date, time) == [k |-> "datetime", v |-> <<date, time>>]

\* bool(x)
Truth(x) ==
  CASE x.k \in {"int", "float"} -> x.v # <<"0">>
    [] x.k = "bool" -> x.v = <<"True">>
    [] x.k = "none" -> FALSE
    [] OTHER -> x.v # <<>>

\* DataType.to_sql is "'%s'" % value
DataType_to_sql(x) == <<"'">> \o Str(x) \o <<"'">>

\* StringType.to_sql raises TypeError unless the value is a str or bytes
StringType_to_sql_raises(x) == x.k \notin {"str", "bytes"}
StringType_to_sql(x) == <<"'">> \o Escape(x.v) \o <<"'">>

\* IntegerType.to_sql is str(x), for every x
IntegerType_to_sql(x) == Str(x)

\* BooleanType.to_sql
BooleanType_to_sql_raises(x) == x.k \notin {"int", "bool"}
BooleanType_to_sql(x) == IF Truth(x) THEN <<"TRUE">> ELSE <<"FALSE">>

\* the size of the BitType of the model: BitType(3)
BitSize == 3
\* format(value, "0{size}b") of the values 0..7 at size 1..4
Binary(t) ==
  CASE t = "0" -> <<"0">> [] t = "1" -> <<"1">> [] t = "2" -> <<"1", "0">>
    [] t = "3" -> <<"1", "1">> [] t = "4" -> <<"1", "0", "0">>
    [] t = "5" -> <<"1", "0", "1">> [] t = "6" -> <<"1", "1", "0">>
    [] t = "7" -> <<"1", "1", "1">> [] t = "True" -> <<"1">>
    [] OTHER -> <<"0">>
Padded(bits, size) ==
  [i \in 1..(IF size > Len(bits) THEN size - Len(bits) ELSE 0) |-> "0"] \o bits
BitType_to_sql_raises(x) == x.k \notin {"int", "bool", "bytes", "str"}
BitType_to_sql(x) ==
  IF x.k \in {"int", "bool"}
  THEN <<"b'">> \o Padded(Binary(x.v[1]), BitSize) \o <<"'">>
  ELSE x.v

\* SetType.to_sql: a str is quoted, an iterable is joined with ','
RECURSIVE JoinStr(_)
JoinStr(xs) ==
  IF xs = <<>> THEN <<>>
  ELSE IF Len(xs) = 1 THEN Str(xs[1])
  ELSE Str(xs[1]) \o <<",">> \o JoinStr(Tail(xs))
SetType_to_sql_raises(x) == x.k \notin {"str", "seq", "bytes", "dict"}
SetType_to_sql(x) ==
  IF x.k = "str" THEN <<"'">> \o x.v \o <<"'">>
  ELSE <<"'">> \o JoinStr(x.v) \o <<"'">>

\* json.dumps(value)
json_dumps(x) ==
  CASE x.k = "none" -> <<"null">>
    [] x.k = "bool" -> IF Truth(x) THEN <<"true">> ELSE <<"false">>
    [] x.k = "str" -> <<"\"">> \o x.v \o <<"\"">>
    [] x.k = "dict" -> <<"{", "\"", x.v[1], "\"", ": ", x.v[2], "}">>
    [] OTHER -> x.v
\* json.loads(text)
json_loads(x) ==
  CASE x.v = <<"null">> -> PyNone
    [] x.v = <<"true">> -> PyBool(TRUE)
    [] x.v = <<"false">> -> PyBool(FALSE)
    [] Len(x.v) = 3 /\ x.v[1] = "\"" -> PyStr(<<x.v[2]>>)
    [] Len(x.v) = 7 /\ x.v[1] = "{" -> PyDict(x.v[3], x.v[6])
    [] OTHER -> PyInt(x.v[1])

\* TimeStampType.to_sql: a datetime is written in ISO format and quoted, a
\* str is taken as it is, an int is wrapped in FROM_UNIXTIME
isoformat(x) == <<x.v[1], "T", x.v[2]>>
TimeStampType_to_sql_raises(x) == x.k \notin {"datetime", "str", "int", "bool"}
TimeStampType_to_sql(x) ==
  CASE x.k = "datetime" -> DataType_to_sql(PyStr(isoformat(x)))
    [] x.k = "str" -> x.v
    [] OTHER -> <<"FROM_UNIXTIME(">> \o Str(x) \o <<")">>

to_sql_raises(type, x) ==
  CASE type = "String" -> StringType_to_sql_raises(x)
    [] type = "Boolean" -> BooleanType_to_sql_raises(x)
    [] type = "Bit" -> BitType_to_sql_raises(x)
    [] type = "Set" -> SetType_to_sql_raises(x)
    [] type = "TimeStamp" -> TimeStampType_to_sql_raises(x)
    [] OTHER -> FALSE

to_sql(type, x) ==
  CASE type = "String" -> StringType_to_sql(x)
    [] type = "Integer" -> IntegerType_to_sql(x)
    [] type = "Boolean" -> BooleanType_to_sql(x)
    [] type = "Bit" -> BitType_to_sql(x)
    [] type = "Set" -> SetType_to_sql(x)
    [] type = "Json" -> json_dumps(x)
    [] type = "TimeStamp" -> TimeStampType_to_sql(x)
    [] OTHER -> DataType_to_sql(x)

\* value.split(','): the parts of a text between its commas
RECURSIVE split(_)
split(ts) ==
  IF ts = <<>> THEN <<>>
  ELSE IF ts[1] = "," THEN split(Tail(ts))
  ELSE <<ts[1]>> \o split(Tail(ts))

\* datetime.fromisoformat(value): the date and the time, whichever of ' '
\* and 'T' separates them
fromisoformat(x) == PyDatetime(x.v[1], x.v[3])

\* to_python of each column type: str(x) of a str, int(x), bool(x),
\* enum_class(x), the list of the members, json.loads(x), fromisoformat(x)
to_python(type, x) ==
  CASE type = "String" -> PyStr(Str(x))
    [] type = "Integer" -> PyInt(x.v[1])
    [] type = "Boolean" -> PyBool(Truth(x))
    [] type = "Bit" -> PyInt(x.v[1])
    [] type = "Enum" -> PyEnum(x.v[1])
    [] type = "Set" -> PySeq([i \in 1..Len(split(x.v)) |-> PyEnum(split(x.v)[i])])
    [] type = "Json" -> json_loads(x)
    [] type = "TimeStamp" -> fromisoformat(x)
    [] OTHER -> x

\* --------------------------------------------------- declared tables (input)
\* Field(type, pk=..., default=...): the descriptor's attributes the model needs
Field(type, pk, default) ==
  [kind |-> "Field", type |-> type, primary |-> pk, unique |-> FALSE,
   nullable |-> TRUE, default |-> default, set_value |-> FALSE, table |-> "", ref |-> "",
   only_one |-> TRUE, auto_increament |-> FALSE, raw_args |-> <<>>]

\* ForeignKey(table): referenced_attr_name defaults to table.primary_attr,
\* the type is the referenced field's type
ForeignKey(table, ref, type, only_one) ==
  [kind |-> "ForeignKey", type |-> type, primary |-> FALSE, unique |-> FALSE,
   nullable |-> FALSE, default |-> PyNone, set_value |-> FALSE, table |-> table, ref |-> ref,
   only_one |-> only_one]

\* dir(cls) lists attribute names in sorted order
AttrOrder == <<"a_id", "id", "k", "name", "x">>

\* class A(Model): id = Field(IntegerType(), pk=True); name = Field(StringType(50))
DeclA ==
  [name |-> "A", base |-> "Model", model |-> TRUE,
   annotations |-> <<"id", "name">>,
   own |-> [a \in {"id", "name"} |->
              IF a = "id" THEN Field("Integer", TRUE, PyNone)
              ELSE Field("String", FALSE, PyNone)]]

\* class B(A): a_id = ForeignKey(A); x = Field(IntegerType())
DeclB ==
  [name |-> "B", base |-> "A", model |-> TRUE,
   annotations |-> <<"a_id", "x">>,
   own |-> [a \in {"a_id", "x"} |->
              IF a = "a_id" THEN ForeignKey("A", "id", "Integer", TRUE)
              ELSE Field("Integer", FALSE, PyNone)]]

\* class C(Model): id = Field(IntegerType(), pk=True); a_id = ForeignKey(A)
DeclC ==
  [name |-> "C", base |-> "Model", model |-> TRUE,
   annotations |-> <<"id", "a_id">>,
   own |-> [a \in {"a_id", "id"} |->
              IF a = "a_id" THEN ForeignKey("A", "id", "Integer", TRUE)
              ELSE Field("Integer", TRUE, PyNone)]]

\* class D(Model): id = Field(IntegerType(), pk=True)
\*                 k = Field(IntegerType(), pk=True)
DeclD ==
  [name |-> "D", base |-> "Model", model |-> TRUE,
   annotations |-> <<"id", "k">>,
   own |-> [a \in {"id", "k"} |-> Field("Integer", TRUE, PyNone)]]

Decl(t) ==
  CASE t = "A" -> DeclA [] t = "B" -> DeclB [] t = "C" -> DeclC
    [] OTHER -> DeclD

\* ---------------------------------------------------------- table metamodel
\* the class Model itself: no fields, no keys
ModelMeta ==
  [name |-> "Model", base |-> "", joined |-> FALSE, fields |-> <<>>,
   spec |-> <<>>, primary_keys |-> <<>>, foreign_keys |-> <<>>,
   unique_keys |-> <<>>, foreign_keys_for_join |-> <<>>,
   primary_attr |-> "None"]

SeqToSet(s) == {s[i] : i \in DOMAIN s}

\* Model.__init_subclass__: the metadata of class decl, whose first base has
\* the metadata super; registered is the outcome of the test at line 828
init_subclass(decl, super, registered) ==
  LET derived == super.name # "Model"
      inherited == IF derived THEN SeqToSet(super.fields) ELSE {}
      attrs == DOMAIN decl.own \cup inherited
      specOf(a) == IF a \in DOMAIN decl.own THEN decl.own[a] ELSE super.spec[a]
      dir == SelectSeq(AttrOrder, LAMBDA a : a \in attrs)
      pks0 == IF derived THEN super.primary_keys ELSE <<>>
      fields0 == IF derived THEN super.fields ELSE <<>>
      fresh == SelectSeq(dir, LAMBDA a : a \notin SeqToSet(fields0))
      prim == SelectSeq(dir, LAMBDA a : specOf(a).primary)
  IN IF registered
     THEN [name |-> decl.name, base |-> decl.base, joined |-> derived,
           fields |-> fields0 \o fresh,
           spec |-> [a \in attrs |-> specOf(a)],
           primary_keys |-> pks0 \o prim,
           foreign_keys |->
             SelectSeq(dir, LAMBDA a : specOf(a).kind = "ForeignKey"),
           unique_keys |-> SelectSeq(dir, LAMBDA a : specOf(a).unique),
           foreign_keys_for_join |->
             SelectSeq(dir, LAMBDA a : specOf(a).kind = "ForeignKey"
                                       /\ specOf(a).table = super.name),
           primary_attr |->
             IF prim = <<>> THEN "None" ELSE prim[Len(prim)]]
     ELSE [name |-> decl.name, base |-> decl.base, joined |-> derived,
           fields |-> fields0,
           spec |-> [a \in inherited |-> super.spec[a]],
           primary_keys |-> pks0, foreign_keys |-> <<>>,
           unique_keys |-> <<>>, foreign_keys_for_join |-> <<>>,
           primary_attr |-> "None"]

MetaA == init_subclass(DeclA, ModelMeta, TRUE)
MetaB == init_subclass(DeclB, MetaA, TRUE)
MetaC == init_subclass(DeclC, ModelMeta, TRUE)
MetaD == init_subclass(DeclD, ModelMeta, TRUE)

Tables == {"A", "B", "C"}
Meta(t) ==
  CASE t = "A" -> MetaA [] t = "B" -> MetaB [] t = "C" -> MetaC
    [] OTHER -> MetaD

\* self.model.fields.get(key): "None" stands for the missing key
HasField(t, key) == key \in SeqToSet(Meta(t).fields)


\* ------------------------------------------------------------- dictionaries
\* a dict is a sequence of <<key, value>> pairs in insertion order
Keys(d) == {d[i][1] : i \in DOMAIN d}
DictGet(d, k) == d[CHOOSE i \in DOMAIN d : d[i][1] = k][2]
DictSet(d, k, v) ==
  IF k \in Keys(d)
  THEN [i \in DOMAIN d |-> IF d[i][1] = k THEN <<k, v>> ELSE d[i]]
  ELSE Append(d, <<k, v>>)

\* ------------------------------------------------------- field definitions
\* the type's definition clause: IntegerType() and StringType(50)
TypeDefinition(type) == IF type = "String" THEN "varchar(50)" ELSE "int unsigned"

\* IntegerType.default_format is "'%d'" % value, the others' is to_sql
default_format(type, x) ==
  IF type = "Integer" THEN <<"'">> \o Str(x) \o <<"'">> ELSE to_sql(type, x)

\* the DEFAULT clause _FieldBase.__init__ writes for a default other than None
DefaultClause(f) ==
  IF f.default.k = "raw" THEN <<"DEFAULT ">> \o f.default.v \o <<" ">>
  ELSE <<"DEFAULT ">> \o default_format(f.type, f.default) \o <<" ">>

\* _FieldBase.__init__ testing nullable alone, whatever pk is
FieldBaseNullablePk(f) ==
  IF f.nullable
  THEN IF f.default = PyNone THEN <<"DEFAULT NULL", " ">> ELSE DefaultClause(f)
  ELSE <<"NOT NULL", " ">>
       \o (IF f.default = PyNone THEN <<>> ELSE DefaultClause(f))

\* _FieldBase.__init__: what it appends to the definition
FieldBase(f) ==
  IF f.nullable /\ ~f.primary
  THEN IF f.default = PyNone THEN <<"DEFAULT NULL", " ">> ELSE DefaultClause(f)
  ELSE <<"NOT NULL", " ">>
       \o (IF f.default = PyNone THEN <<>> ELSE DefaultClause(f))

\* Field.__init__: the definition text of a Field
FieldDefinition(f) ==
  LET head == <<TypeDefinition(f.type), " ">>
              \o (IF f.auto_increament THEN <<" AUTO_INCREMENT">> ELSE <<>>)
      args == Flatten([i \in 1..Len(f.raw_args) |-> <<f.raw_args[i], " ">>])
      text == head \o FieldBase(f) \o args
  IN IF text[Len(text)] = " " THEN SubSeq(text, 1, Len(text) - 1) ELSE text

\* ForeignKey.__init__ with _FieldBase.__init__: the column part of the
\* definition, up to the comma; it ends in the blank _FieldBase appends
ForeignKeyColumn(f) ==
  <<TypeDefinition(f.type), " ">>
  \o (IF f.nullable /\ ~f.primary THEN <<"DEFAULT NULL", " ">>
      ELSE <<"NOT NULL", " ">>)

\* the key part of a ForeignKey's definition, after __init_subclass__ has put
\* the constraint name of field name of class cls before it
ForeignKeyConstraint(cls, name, f) ==
  <<"CONSTRAINT fk_", cls, "_", name, " ", "FOREIGN KEY(", f.ref,
    ") REFERENCES ", f.table, "(", f.ref, ")",
    "\n\t", "ON DELETE CASCADE", "\n\t", "ON UPDATE CASCADE">>

\* field.definition of attribute name of class cls
Definition(cls, name) ==
  IF Meta(cls).spec[name].kind = "ForeignKey"
  THEN ForeignKeyColumn(Meta(cls).spec[name]) \o <<",\n\t">>
       \o ForeignKeyConstraint(cls, name, Meta(cls).spec[name])
  ELSE FieldDefinition(Meta(cls).spec[name])

\* ------------------------------------------------------------------ effects
\* what a call has done so far: the exception it raised ("" for none), the
\* object it works on, the statements it sent and the commits it made, and
\* the attribute assignments it performed
NoExc == ""
Eff(exc, obj, sent, commits, assigns) ==
  [exc |-> exc, obj |-> obj, sent |-> sent, commits |-> commits,
   assigns |-> assigns]

\* e after st: the later exception and object, everything else accumulated
Join(st, e) ==
  Eff(e.exc, e.obj, st.sent \o e.sent, st.commits + e.commits,
      st.assigns \cup e.assigns)

\* raise exc if there is one, before anything is sent; otherwise go on
Guarded(exc, obj, go) ==
  IF exc # NoExc THEN Eff(exc, obj, <<>>, 0, {}) ELSE go

\* execute(query) followed by conn.commit()
Executed(obj, query) == Eff(NoExc, obj, <<query>>, 1, {})

\* the loops over kwargs: the first key that is not a field raises
\* ValueError, the first value to_sql rejects raises TypeError, whichever
\* comes first
FirstError(unknown, rejected) ==
  IF unknown \cup rejected = {} THEN NoExc
  ELSE IF (CHOOSE i \in unknown \cup rejected :
             \A j \in unknown \cup rejected : i <= j) \in unknown
       THEN "ValueError"
       ELSE "TypeError"

KwUnknown(cls, kwargs) == {i \in DOMAIN kwargs : ~HasField(cls, kwargs[i][1])}
TypeOfKw(cls, kwargs, i) == Meta(cls).spec[kwargs[i][1]].type

\* ----------------------------------------------------------- record binding
\* _Record.update: a RawFormat value is taken as it is, any other one goes
\* through to_sql
RecordRejected(cls, kwargs) ==
  {i \in DOMAIN kwargs :
     /\ HasField(cls, kwargs[i][1])
     /\ kwargs[i][2].k # "raw"
     /\ to_sql_raises(TypeOfKw(cls, kwargs, i), kwargs[i][2])}

RecordSetText(cls, kwargs) ==
  Flatten([i \in DOMAIN kwargs |->
             <<kwargs[i][1], " = ">>
             \o (IF kwargs[i][2].k = "raw" THEN kwargs[i][2].v
                 ELSE to_sql(TypeOfKw(cls, kwargs, i), kwargs[i][2]))
             \o <<", ">>])

\* 'key = value AND ' for every entry of primary_data
PrimaryText(primary_data) ==
  Flatten([i \in DOMAIN primary_data |->
             <<primary_data[i][1], " = ">> \o Str(primary_data[i][2])
             \o <<" AND ">>])

\* the statement _Record.update builds; self.__class__ is _Record
RecordUpdateQuery(obj, kwargs) ==
  Chop(Chop(<<"UPDATE ", "_Record", " SE", "T ">>
            \o RecordSetText(obj.cls, kwargs), 2)
       \o <<" W", "HERE ">> \o PrimaryText(obj.primary_data), 5) \o <<";">>

\* _Record.update(**kwargs) on the binder of obj
Record_update(obj, kwargs) ==
  Guarded(FirstError(KwUnknown(obj.cls, kwargs), RecordRejected(obj.cls, kwargs)),
          obj, Executed(obj, RecordUpdateQuery(obj, kwargs)))

\* the statement _Record.delete builds; self.obj.__class__ is the table
RecordDeleteQuery(obj) ==
  Chop(<<"DELETE FROM ", obj.cls, " W", "HERE ">>
       \o PrimaryText(obj.primary_data), 5) \o <<";">>

\* _Record.delete() on the binder of obj
Record_delete(obj) == Executed(obj, RecordDeleteQuery(obj))

\* name.startswith('_'), over the attribute names of the model
StartsWithUnderscore(name) == name \in {"_tmp"}

\* the assignment as the call's record of assignments keeps it
Assignment(obj, name, e) ==
  [e EXCEPT !.assigns = {[cls |-> obj.cls, name |-> name,
                          matched |-> obj.matched, stmts |-> Len(e.sent)]}]

\* the branch of __setattr__ taken for a matched instance and a field
setattr_matched(obj, name, value, field) ==
  IF field.kind = "Field" /\ field.set_value
  THEN Eff(NoExc, obj, <<>>, 0, {})
  ELSE Guarded(IF to_sql_raises(field.type, value) THEN "TypeError" ELSE NoExc,
               obj,
               Record_update(obj, <<<<name, PyStr(to_sql(field.type, value))>>>>))

\* super().__setattr__(name, value)
object_setattr(obj, name, value) ==
  [obj EXCEPT !.attrs = DictSet(@, name, value)]

\* __setattr__ without the test of self.matched
setattr_unguarded(obj, name, value) ==
  Assignment(obj, name,
    IF ~StartsWithUnderscore(name) /\ HasField(obj.cls, name)
    THEN setattr_matched(object_setattr(obj, name, value), name, value,
                         Meta(obj.cls).spec[name])
    ELSE Eff(NoExc, object_setattr(obj, name, value), <<>>, 0, {}))

\* Model.__setattr__(name, value) on obj
setattr(obj, name, value) ==
  Assignment(obj, name,
    IF obj.matched /\ ~StartsWithUnderscore(name) /\ HasField(obj.cls, name)
    THEN setattr_matched(object_setattr(obj, name, value), name, value,
                         Meta(obj.cls).spec[name])
    ELSE Eff(NoExc, object_setattr(obj, name, value), <<>>, 0, {}))

\* a row mapping as the cursor yields it, and the fresh instance of a class
RowData(row) == [k |-> "dict", v |-> row]
SessionData == [k |-> "session", v |-> <<>>]
NewObj(cls) ==
  [cls |-> cls, matched |-> FALSE, primary_data |-> <<>>, attrs |-> <<>>]

\* Model.undefined_field: the ALTER TABLE it sends for a missing column
undefined_field(cls, name, field) ==
  <<"ALTER TABLE ", cls, " ADD ", name, " ">> \o FieldDefinition(field)
  \o <<";">>

\* _FieldBase.__call__(value): a _SelectQuery holding the field's name and
\* the quoted value (the token "BQ" stands for the backquote character)
FieldCall(name, value) ==
  PyQuery(<<name, "(", "BQ">> \o Str(value) \o <<"BQ", ")">>)

\* setattr(self, attr, val) unless an exception is on its way
Assigned(st, attr, val) ==
  IF st.exc # NoExc THEN st ELSE Join(st, setattr(st.obj, attr, val))

Raise(st, exc) == [st EXCEPT !.exc = exc]
HasColumn(data, name) == data.k = "dict" /\ name \in Keys(data.v)

\* if field.primary: self.primary_data[attr] = data[name]
match_primary(st, attr, field, data) ==
  IF ~field.primary THEN st
  ELSE IF data.k = "session" THEN Raise(st, "TypeError")
  ELSE IF ~HasColumn(data, attr) THEN Raise(st, "KeyError")
  ELSE [st EXCEPT !.obj.primary_data = DictSet(@, attr, DictGet(data.v, attr))]

\* the branch of match_attr for a Field: data.get(name), undefined_field
match_plain(st, attr, field, data) ==
  IF data.k = "session" THEN Raise(st, "AttributeError")
  ELSE IF HasColumn(data, attr) THEN st
  ELSE Join(st, Executed(st.obj, undefined_field(st.obj.cls, attr, field)))

PlainValue(attr, field, data) ==
  FieldCall(attr, IF HasColumn(data, attr) THEN DictGet(data.v, attr)
                  ELSE field.default)

\* the SELECT match_attr sends for a ForeignKey
KeySelect(attr, field, data) ==
  <<"SELECT * FROM ", field.table, " W", "HERE ", field.ref, " = ", "'">>
  \o Str(DictGet(data.v, attr)) \o <<"'">>

KeyValue(field, fkrows) ==
  IF field.only_one
  THEN IF fkrows # <<>> THEN PyModel(field.table) ELSE PyNone
  ELSE PyList(field.table, Len(fkrows))

RECURSIVE match_attr(_, _, _, _, _)
RECURSIVE NestedModels(_, _, _, _, _)

\* Model.__init__(data, match, **kwargs) of class cls for a true match
Model_init_match(cls, data, kwargs, fkrows) ==
  match_attr(Eff(NoExc, NewObj(cls), <<>>, 0, {}), 1, data, kwargs, fkrows)

\* field.table(d, **{ref: self}) for every d of arr, the instances left aside
NestedModels(st, table, ref, owner, arr) ==
  IF st.exc # NoExc \/ arr = <<>> THEN st
  ELSE NestedModels(
         Join(st, [Model_init_match(table, RowData(arr[1]),
                                    <<<<ref, PyModel(owner)>>>>, <<>>)
                     EXCEPT !.obj = st.obj]),
         table, ref, owner, Tail(arr))

\* the branch of match_attr for a ForeignKey: the SELECT and the instances
match_key(st, attr, field, data, fkrows) ==
  IF data.k = "session" THEN Raise(st, "TypeError")
  ELSE IF ~HasColumn(data, attr) THEN Raise(st, "KeyError")
  ELSE NestedModels(
         Join(st, Eff(NoExc, st.obj, <<KeySelect(attr, field, data)>>, 0, {})),
         field.table, field.ref, st.obj.cls,
         IF field.only_one /\ fkrows # <<>> THEN <<fkrows[1]>> ELSE fkrows)

\* one round of the loop of match_attr, after the primary key's part
match_field(st, attr, field, data, fkrows) ==
  IF st.exc # NoExc THEN st
  ELSE IF field.kind = "Field"
       THEN Assigned(match_plain(st, attr, field, data), attr,
                     PlainValue(attr, field, data))
       ELSE Assigned(match_key(st, attr, field, data, fkrows), attr,
                     KeyValue(field, fkrows))

\* one round of the loop of match_attr
match_step(st, attr, field, data, kwargs, fkrows) ==
  IF attr \in Keys(kwargs) THEN Assigned(st, attr, DictGet(kwargs, attr))
  ELSE match_field(match_primary(st, attr, field, data), attr, field, data,
                   fkrows)

\* Model.match_attr(data, **kwargs) from the i-th field on; fkrows is what
\* the cursor's fetchall() yields for the foreign key's SELECT
match_attr(st, i, data, kwargs, fkrows) ==
  IF st.exc # NoExc \/ i > Len(Meta(st.obj.cls).fields) THEN st
  ELSE match_attr(
         match_step(st, Meta(st.obj.cls).fields[i],
                    Meta(st.obj.cls).spec[Meta(st.obj.cls).fields[i]],
                    data, kwargs, fkrows),
         i + 1, data, kwargs, fkrows)

\* for attr in self.fields: setattr(self, attr, None)
RECURSIVE SetAllNone(_, _)
SetAllNone(st, i) ==
  IF st.exc # NoExc \/ i > Len(Meta(st.obj.cls).fields) THEN st
  ELSE SetAllNone(Assigned(st, Meta(st.obj.cls).fields[i], PyNone), i + 1)

\* Model.__init__(data, match, **kwargs) of class cls; match is its truth value
Model_init(cls, data, match, kwargs, fkrows) ==
  IF match THEN Model_init_match(cls, data, kwargs, fkrows)
  ELSE SetAllNone(Eff(NoExc, NewObj(cls), <<>>, 0, {}), 1)

\* -------------------------------------------------------------- query sets
KwRejected(cls, kwargs) ==
  {i \in DOMAIN kwargs :
     /\ HasField(cls, kwargs[i][1])
     /\ to_sql_raises(TypeOfKw(cls, kwargs, i), kwargs[i][2])}
KwError(cls, kwargs) ==
  FirstError(KwUnknown(cls, kwargs), KwRejected(cls, kwargs))

KwLiteral(cls, kwargs, i) == to_sql(TypeOfKw(cls, kwargs, i), kwargs[i][2])

\* 'INSERT INTO T (k, ...) VALUES (v, ...' as __call__ and create_or_update
\* build it, up to the closing of the value list
InsertText(cls, kwargs) ==
  Chop(<<"INSERT INTO ", cls, " (">>
       \o Flatten([i \in DOMAIN kwargs |-> <<kwargs[i][1], ", ">>]), 2)
  \o <<") ">>
  \o Chop(<<"VALUES", " (">>
          \o Flatten([i \in DOMAIN kwargs |->
                        KwLiteral(cls, kwargs, i) \o <<", ">>]), 2)

\* 'k = v, ' for every keyword
SetText(cls, kwargs) ==
  Flatten([i \in DOMAIN kwargs |->
             <<kwargs[i][1], " = ">> \o KwLiteral(cls, kwargs, i) \o <<", ">>])

\* return self.model(_sessions[0], kwargs): the session is the data, kwargs
\* the match flag
ModelOfSession(cls, kwargs) ==
  Model_init(cls, SessionData, kwargs # <<>>, <<>>, <<>>)

\* _Records.__call__(**kwargs)
Records_call(cls, kwargs) ==
  Guarded(KwError(cls, kwargs), NewObj(cls),
          Join(Executed(NewObj(cls), InsertText(cls, kwargs) \o <<");">>),
               ModelOfSession(cls, kwargs)))

\* _Records.update(**kwargs)
Records_update(cls, kwargs) ==
  Guarded(KwError(cls, kwargs), NewObj(cls),
          Executed(NewObj(cls),
                   Chop(<<"UPDATE ", cls, " SE", "T ">> \o SetText(cls, kwargs), 2)
                   \o <<";">>))

\* _Records.create_or_update(**kwargs)
Records_create_or_update(cls, kwargs) ==
  Guarded(KwError(cls, kwargs), NewObj(cls),
          Join(Executed(NewObj(cls),
                        Chop(InsertText(cls, kwargs)
                             \o <<") ON DUPLICATE KEY UPDATE ">>
                             \o SetText(cls, kwargs), 2) \o <<";">>),
               ModelOfSession(cls, kwargs)))

\* _Records._select_data(query, **kwargs): the statement it sends; query is
\* the text given, or the default one when it is None
DefaultSelect(cls) == <<"SELECT * FROM ", cls, " W", "HERE ">>
select_data(query, kwargs) ==
  Chop(query \o Flatten([i \in DOMAIN kwargs |->
                           <<kwargs[i][1], " = ", "'">> \o Str(kwargs[i][2])
                           \o <<"'", " AND ">>]), 5) \o <<";">>

\* the Session after _select_data: one statement sent, nothing built yet
Selected(query) == Eff(NoExc, <<>>, <<query>>, 0, {})

\* [self.model(data, **kwargs) for data in datas]: obj is the list built
RECURSIVE ModelList(_, _, _, _, _)
AppendModel(st, m) == Join(st, [m EXCEPT !.obj = Append(st.obj, m.obj)])
ModelList(st, cls, datas, kwargs, fkrows) ==
  IF st.exc # NoExc \/ datas = <<>> THEN st
  ELSE ModelList(AppendModel(st, Model_init_match(cls, datas[1], kwargs, fkrows)),
                 cls, Tail(datas), kwargs, fkrows)

\* the foreign keys the loops of get and filter can stop at: those whose
\* referenced attribute name is a field of the class looked into
RelationKeys(cls, looked) ==
  SelectSeq(Meta(cls).foreign_keys,
            LAMBDA a : HasField(looked, Meta(cls).spec[a].ref))

\* the instances built for a positional argument arg: "" for none, a table's
\* name for an instance of it, "other" for anything else; fks are the
\* foreign keys the loop can stop at
Scoped(st, cls, arg, fks, datas, fkrows) ==
  IF arg \in Tables
  THEN IF fks = <<>> THEN Raise(st, "ValueError")
       ELSE ModelList(st, cls, datas,
                      <<<<Meta(cls).spec[fks[1]].ref, PyModel(arg)>>>>, fkrows)
  ELSE IF arg # "" THEN Raise(st, "TypeError")
  ELSE ModelList(st, cls, datas, <<>>, fkrows)

\* _Records.get(*args, **kwargs); result is what fetchone() yields, <<>> for
\* None
Records_get(cls, arg, kwargs, result, fkrows) ==
  IF result = <<>> THEN Selected(select_data(DefaultSelect(cls), kwargs))
  ELSE Scoped(Selected(select_data(DefaultSelect(cls), kwargs)), cls, arg,
              RelationKeys(cls, cls), <<RowData(result)>>, fkrows)

\* _Records.filter(*args, **kwargs); rows is what fetchall() yields
Records_filter(cls, arg, kwargs, rows, fkrows) ==
  Scoped(Selected(select_data(DefaultSelect(cls), kwargs)), cls, arg,
         IF arg \in Tables THEN RelationKeys(cls, arg) ELSE <<>>,
         [i \in DOMAIN rows |-> RowData(rows[i])], fkrows)

\* [self.model(_sessions[0], data) for data in rows]: the session is the
\* data, the row the match flag
RECURSIVE ModelListOfSession(_, _, _)
ModelListOfSession(st, cls, n) ==
  IF st.exc # NoExc \/ n = 0 THEN st
  ELSE ModelListOfSession(
         AppendModel(st, Model_init_match(cls, SessionData, <<>>, <<>>)),
         cls, n - 1)

\* _Records.all()
Records_all(cls, rows) ==
  ModelListOfSession(Selected(<<"SELECT * FROM ", cls, ";">>), cls, Len(rows))

\* _Records.count(**kwargs) with the default condition object, whose text is
\* condition when the call starts: the text the object holds afterwards, and
\* the statement sent
CountCondition(condition, kwargs) ==
  condition \o Flatten([i \in DOMAIN kwargs |->
                          <<kwargs[i][1], " = ">> \o Str(kwargs[i][2])
                          \o <<" AND ">>])
Records_count(cls, condition, kwargs) ==
  (IF kwargs # <<>> THEN Chop(<<"SELECT ", "COUNT(*)", " F", "ROM ", cls>>, 5)
   ELSE <<"SELECT ", "COUNT(*)", " F", "ROM ", cls>>)
  \o <<" WHERE ">> \o CountCondition(condition, kwargs) \o <<";">>

\* the text up to WHERE that _JoinedRecords.get and filter build
JoinText(cls) ==
  Chop(<<"SELECT * FROM ", cls, "\nINNER JOIN ", Meta(cls).base, " ON ">>
       \o Flatten([i \in DOMAIN Meta(cls).foreign_keys_for_join |->
                     <<cls, ".", Meta(cls).foreign_keys_for_join[i], " = ",
                       Meta(cls).base, ".",
                       Meta(cls).spec[Meta(cls).foreign_keys_for_join[i]].ref,
                       " AND ">>]), 5)
  \o <<"\nW", "HERE ">>

\* _JoinedRecords.get(*args, **kwargs)
JoinedRecords_get(cls, kwargs, result, fkrows) ==
  ModelList(Selected(select_data(JoinText(cls), kwargs)), cls,
            IF result = <<>> THEN <<>> ELSE <<RowData(result)>>, <<>>, fkrows)

\* _JoinedRecords.filter(**kwargs)
JoinedRecords_filter(cls, kwargs, rows, fkrows) ==
  ModelList(Selected(select_data(JoinText(cls), kwargs)), cls,
            [i \in DOMAIN rows |-> RowData(rows[i])], <<>>, fkrows)

\* _JoinedRecords.all(): self.join is not an attribute of the query set
JoinedRecords_all(cls) == Eff("AttributeError", <<>>, <<>>, 0, {})

\* ------------------------------------------------------------------- inputs
KwKeys == {"id", "name", "bogus"}
KwVals == {PyInt("1"), PyInt("2"), PyStr(<<"a">>)}

\* keyword arguments: at most MaxKw pairs, no key twice
RECURSIVE KwargsOfLen(_)
KwargsOfLen(n) ==
  IF n = 0 THEN {<<>>}
  ELSE {Append(kw, <<k, v>>) :
          kw \in KwargsOfLen(n - 1), k \in KwKeys, v \in KwVals}
Kwargs ==
  {kw \in UNION {KwargsOfLen(n) : n \in 0..MaxKw} :
     \A i, j \in DOMAIN kw : i # j => kw[i][1] # kw[j][1]}

\* the values an assignment or a keyword of count may carry
AssignNames == {"id", "name", "bogus", "_tmp"}
CountKwargs == {kw \in Kwargs : Len(kw) <= 1 /\ \A i \in DOMAIN kw :
                                  kw[i][1] # "name" /\ kw[i][2] = PyInt("1")}
MaxCondition == 2

\* the rows the cursor can yield for a table: A(id, name), where the live
\* table may lack the column name; C(id, a_id); B joined to A
Rows(cls) ==
  IF cls = "A"
  THEN {<<<<"id", PyInt(i)>>>> : i \in {"1", "2"}}
       \cup {<<<<"id", PyInt(i)>>, <<"name", PyStr(<<"a">>)>>>> : i \in {"1", "2"}}
  ELSE IF cls = "C"
  THEN {<<<<"id", PyInt(i)>>, <<"a_id", PyInt("1")>>>> : i \in {"1", "2"}}
  ELSE {<<<<"a_id", PyInt("1")>>, <<"x", PyInt(i)>>, <<"id", PyInt("1")>>,
          <<"name", PyStr(<<"a">>)>>>> : i \in {"1", "2"}}

\* a row the SELECT of _select_data can return: it has the filtered values
RowSatisfies(row, kwargs) ==
  \A i \in DOMAIN kwargs :
    kwargs[i][1] \in Keys(row) => Str(DictGet(row, kwargs[i][1])) = Str(kwargs[i][2])

\* fetchall(): at most MaxRows distinct rows
RECURSIVE RowSeqs(_, _)
RowSeqs(rows, n) ==
  IF n = 0 THEN {<<>>}
  ELSE LET shorter == RowSeqs(rows, n - 1)
       IN shorter \cup {Append(rs, r) : rs \in {x \in shorter : Len(x) = n - 1},
                                        r \in rows}
FetchAll(cls, kwargs) ==
  {rs \in RowSeqs({r \in Rows(cls) : RowSatisfies(r, kwargs)}, MaxRows) :
     \A i, j \in DOMAIN rs : i # j => rs[i] # rs[j]}
\* fetchone(): a row, or <<>> for None
FetchOne(cls, kwargs) ==
  {<<>>} \cup {r \in Rows(cls) : RowSatisfies(r, kwargs)}
\* the rows of the foreign key's SELECT: only the first one is used
FkRows == {<<>>} \cup {<<r>> : r \in Rows("A")}

PlainTables == {t \in Tables : ~Meta(t).joined}
JoinedTables == {t \in Tables : Meta(t).joined}
\* the positional argument of get and filter: none, an instance, another value
Args == {""} \cup Tables \cup {"other"}

\* -------------------------------------------------------------------- state
VARIABLES
  sent,       \* the statements the Session was sent during the current call
  commits,    \* the commits made during the current call
  ret,        \* the Records the current call returned
  call,       \* the current call: what was called, with what, how it ended
  assigns,    \* the attribute assignments made during the current call
  condition   \* the text of the default condition object of count

ormvars == <<sent, commits, ret, call, assigns, condition>>

VARIABLES
  models,            \* the registry: the names of the registered classes
  declared,          \* the class statements executed so far, in order
  pc,                \* where the program is: importing, or at a prompt
  mi,                \* migrate: the index in models of the table at hand
  definitions,       \* migrate: the live columns, name to definition
  different_attrs,   \* migrate: declared fields the live table differs in
  different_columns, \* migrate: live columns no declared field accounts for
  foreign_keys,      \* migrate: the foreign keys to add
  it,                \* migrate: the index of the entry a phase prompts for
  query,             \* migrate: the ALTER TABLE text assembled so far
  queries,           \* migrate: the statements awaiting confirmation
  outcome,           \* migrate: how the last table, or the run, ended
  raised             \* migrate: the exception that left migrate()

regvars == <<models, declared>>
diffvars == <<definitions, different_attrs, foreign_keys>>
migvars == <<models, declared, pc, mi, definitions, different_attrs,
             different_columns, foreign_keys, it, query, queries, outcome,
             raised>>

VARIABLES
  subject,    \* the library object a direct call works on, or its argument
  returned    \* what the direct call returned

libvars == <<subject, returned>>

NoCall == [op |-> "", cls |-> "", arg |-> "", kw |-> <<>>, exc |-> NoExc,
           none |-> FALSE]
Call(op, cls, arg, kw, exc, none) ==
  [op |-> op, cls |-> cls, arg |-> arg, kw |-> kw, exc |-> exc, none |-> none]

OrmInit ==
  /\ sent = <<>>
  /\ commits = 0
  /\ ret = <<>>
  /\ call = NoCall
  /\ assigns = {}
  /\ condition = <<>>

\* the session is fresh: nothing was called on it yet
Fresh == call.op = ""

\* the outcome e of a call; its object is the list of Records returned, the
\* one Record returned (one), the Record assigned to, which the caller holds
\* whatever happens (held), or nothing that is kept
Finish(op, cls, arg, kw, e, shape, none) ==
  /\ sent' = e.sent
  /\ commits' = e.commits
  /\ assigns' = e.assigns
  /\ ret' = IF shape = "held" THEN <<e.obj>>
            ELSE IF e.exc # NoExc \/ shape = "nothing" THEN <<>>
            ELSE IF shape = "one" THEN <<e.obj>> ELSE e.obj
  /\ call' = Call(op, cls, arg, kw, e.exc, e.exc = NoExc /\ none)
  /\ UNCHANGED <<migvars, libvars>>

\* set_session(...): a new Session replaces the current one
set_session ==
  /\ ~Fresh
  /\ sent' = <<>> /\ commits' = 0 /\ ret' = <<>> /\ call' = NoCall
  /\ assigns' = {}
  /\ UNCHANGED condition
  /\ UNCHANGED <<migvars, libvars>>

\* T.objects(**kwargs)
Create ==
  /\ Fresh
  /\ \E cls \in Tables, kw \in Kwargs :
       Finish("create", cls, "", kw, Records_call(cls, kw), "one", FALSE)
  /\ UNCHANGED condition

\* T.objects.update(**kwargs)
Update ==
  /\ Fresh
  /\ \E cls \in Tables, kw \in Kwargs :
       Finish("update", cls, "", kw, Records_update(cls, kw), "nothing", TRUE)
  /\ UNCHANGED condition

\* T.objects.create_or_update(**kwargs)
CreateOrUpdate ==
  /\ Fresh
  /\ \E cls \in Tables, kw \in Kwargs :
       Finish("create_or_update", cls, "", kw,
              Records_create_or_update(cls, kw), "one", FALSE)
  /\ UNCHANGED condition

\* T.objects.get(*args, **kwargs) of a table that is not derived
Get ==
  /\ Fresh
  /\ \E cls \in PlainTables, arg \in Args, kw \in Kwargs :
       \E result \in FetchOne(cls, kw), fkrows \in FkRows :
         Finish("get", cls, arg, kw,
                Records_get(cls, arg, kw, result, fkrows), "list", result = <<>>)
  /\ UNCHANGED condition

\* T.objects.filter(*args, **kwargs) of a table that is not derived
Filter ==
  /\ Fresh
  /\ \E cls \in PlainTables, arg \in Args, kw \in Kwargs :
       \E rows \in FetchAll(cls, kw), fkrows \in FkRows :
         Finish("filter", cls, arg, kw,
                Records_filter(cls, arg, kw, rows, fkrows), "list", FALSE)
  /\ UNCHANGED condition

\* T.objects.all() of a table that is not derived
All ==
  /\ Fresh
  /\ \E cls \in PlainTables : \E rows \in FetchAll(cls, <<>>) :
       Finish("all", cls, "", <<>>, Records_all(cls, rows), "list", FALSE)
  /\ UNCHANGED condition

\* T.objects.count(**kwargs)
Count ==
  /\ Fresh
  /\ \E cls \in Tables, kw \in CountKwargs :
       /\ Len(CountCondition(condition, kw)) <= 4 * MaxCondition
       /\ condition' = CountCondition(condition, kw)
       /\ Finish("count", cls, "", kw,
                 Eff(NoExc, <<>>, <<Records_count(cls, condition, kw)>>, 0, {}),
                 "nothing", FALSE)

\* B.objects.get(*args, **kwargs) of a derived table
JoinedGet ==
  /\ Fresh
  /\ \E cls \in JoinedTables, arg \in Args, kw \in Kwargs :
       \E result \in FetchOne(cls, kw), fkrows \in FkRows :
         Finish("get", cls, arg, kw,
                JoinedRecords_get(cls, kw, result, fkrows), "list", result = <<>>)
  /\ UNCHANGED condition

\* B.objects.filter(**kwargs) of a derived table
JoinedFilter ==
  /\ Fresh
  /\ \E cls \in JoinedTables, kw \in Kwargs :
       \E rows \in FetchAll(cls, kw), fkrows \in FkRows :
         Finish("filter", cls, "", kw,
                JoinedRecords_filter(cls, kw, rows, fkrows), "list", FALSE)
  /\ UNCHANGED condition

\* B.objects.all() of a derived table
JoinedAll ==
  /\ Fresh
  /\ \E cls \in JoinedTables :
       Finish("all", cls, "", <<>>, JoinedRecords_all(cls), "list", FALSE)
  /\ UNCHANGED condition

\* T(match=False): an instance that is not loaded from a row
Construct ==
  /\ Fresh
  /\ \E cls \in Tables :
       Finish("construct", cls, "", <<>>,
              Model_init(cls, RowData(<<>>), FALSE, <<>>, <<>>), "one", FALSE)
  /\ UNCHANGED condition

\* record.name = value, on a Record the current call returned; the call kept
\* is the assignment, its arg the operation the Record came from
Assign ==
  /\ call.op \notin {"", "setattr"}
  /\ \E i \in DOMAIN ret, name \in AssignNames, value \in KwVals :
       Finish("setattr", ret[i].cls, call.op, <<<<name, value>>>>,
              setattr(ret[i], name, value), "held", FALSE)
  /\ UNCHANGED condition

\* record.object.delete(), on a Record the current call returned; the call
\* kept is the deletion, its arg the operation the Record came from
Delete ==
  /\ call.op \notin {"", "setattr", "delete"}
  /\ \E i \in DOMAIN ret :
       Finish("delete", ret[i].cls, call.op, <<>>, Record_delete(ret[i]),
              "held", FALSE)
  /\ UNCHANGED condition

OrmNext ==
  \/ set_session
  \/ Create
  \/ Update
  \/ CreateOrUpdate
  \/ Get
  \/ Filter
  \/ All
  \/ Count
  \/ JoinedGet
  \/ JoinedFilter
  \/ JoinedAll
  \/ Construct
  \/ Assign
  \/ Delete


\* ---------------------------------------------------------------- registry
MaxDeclare == 2

\* the classes a program declares; C names A in its ForeignKey, so that
\* its class statement runs after one of A
DeclNames == {"A", "C", "D"}

\* the test of line 828 without the look at the registry
registers_unchecked(ms, name, model) == model

\* the test of line 828: the class is registered when it is a model and no
\* registered class has its name
registers(ms, name, model) == model /\ name \notin SeqToSet(ms)

\* class name(Model, model=model): ...  (Model.__init_subclass__)
Declare ==
  /\ pc = "import"
  /\ Len(declared) < MaxDeclare
  /\ \E name \in DeclNames, model \in BOOLEAN :
       /\ name = "C" => \E i \in DOMAIN declared : declared[i].name = "A"
       /\ declared' = Append(declared, [name |-> name, model |-> model])
       /\ models' = IF registers(models, name, model)
                    THEN Append(models, name) ELSE models
  /\ UNCHANGED <<pc, mi, diffvars, different_columns, it, query, queries,
                 outcome, raised>>
  /\ UNCHANGED <<ormvars, libvars>>

\* ", ".join(names)
RECURSIVE JoinComma(_)
JoinComma(names) ==
  IF Len(names) <= 1 THEN names
  ELSE <<names[1], ", ">> \o JoinComma(Tail(names))

\* the lines _create_create_table_query writes for the annotated attributes
ColumnLines(cls) ==
  Flatten([i \in DOMAIN Decl(cls).annotations |->
             <<"\t", Decl(cls).annotations[i], " ">>
             \o Definition(cls, Decl(cls).annotations[i]) \o <<",\n">>])

\* _create_create_table_query(table)
create_create_table_query(cls) ==
  Chop(<<"CREATE TABLE IF NOT EXISTS ", "BQ", cls, "BQ", " (\n">>
       \o ColumnLines(cls)
       \o <<"\tPRIMARY KEY(">> \o JoinComma(Meta(cls).primary_keys)
       \o <<")", ",\n">>, 2)
  \o <<"\n);">>

\* create_tables(): one CREATE TABLE for each registered class, in the order
\* of the registry, then one commit
create_tables ==
  /\ pc = "import"
  /\ models # <<>>
  /\ sent' = [i \in DOMAIN models |-> create_create_table_query(models[i])]
  /\ commits' = 1
  /\ pc' = "ready"
  /\ UNCHANGED <<regvars, mi, diffvars, different_columns, it, query, queries,
                 outcome, raised>>
  /\ UNCHANGED <<ret, call, assigns, condition, libvars>>

\* --------------------------------------------------------------- migration
\* a line of the CREATE TABLE text that SHOW CREATE TABLE returns, between
\* the first and the last: a column line starts with the quoted column name
\* col, another line has col "" ; def is the rest of the line, its words
\* joined by one blank and the trailing comma removed
ColumnLine(col, def) == [col |-> col, def |-> def]
OtherLine(def) == [col |-> "", def |-> def]

\* the live definition of a column that agrees with the declaration
LiveDefinition(cls, name) ==
  IF Meta(cls).spec[name].kind = "ForeignKey"
  THEN Chop(ForeignKeyColumn(Meta(cls).spec[name]), 1)
  ELSE FieldDefinition(Meta(cls).spec[name])

DeclaredLines(cls) ==
  [i \in DOMAIN Decl(cls).annotations |->
     ColumnLine(Decl(cls).annotations[i],
                LiveDefinition(cls, Decl(cls).annotations[i]))]

LegacyLine == ColumnLine("old", <<"int unsigned", " ", "DEFAULT NULL">>)
OtherLegacyLine == ColumnLine("zz", <<"text", " ", "DEFAULT NULL">>)

\* kd.replace("\n\t", ' ')
OnOneLine(kd) == [j \in DOMAIN kd |-> IF kd[j] = "\n\t" THEN " " ELSE kd[j]]

\* the key lines of a live table: the primary key, and for each foreign key
\* the declared key part on one line
KeyLines(cls) ==
  <<OtherLine(<<"PRIMARY KEY (">> \o JoinComma(Meta(cls).primary_keys)
              \o <<")">>)>>
  \o [i \in DOMAIN Meta(cls).foreign_keys |->
        OtherLine(OnOneLine(ForeignKeyConstraint(cls,
          Meta(cls).foreign_keys[i],
          Meta(cls).spec[Meta(cls).foreign_keys[i]])))]

\* the last declared column is missing, or defined otherwise
WithoutLast(lines) == SubSeq(lines, 1, Len(lines) - 1)
LastAltered(lines) ==
  Append(WithoutLast(lines),
         ColumnLine(lines[Len(lines)].col, <<"text", " ", "DEFAULT NULL">>))

\* the live tables the model considers for class cls: in step with the
\* declaration, its last column missing or altered, each with and without a
\* column the declaration does not have, and for A its last column missing
\* with two such columns
Live(cls) ==
  { cols \o legacy \o KeyLines(cls) :
      cols \in {DeclaredLines(cls), WithoutLast(DeclaredLines(cls)),
                LastAltered(DeclaredLines(cls))},
      legacy \in {<<>>, <<LegacyLine>>} }
  \cup { WithoutLast(DeclaredLines(cls)) \o <<LegacyLine, OtherLegacyLine>>
         \o KeyLines(cls) : c \in {cls} \cap {"A"} }

\* lines 1024-1028: the column lines as a dict, the other lines as a list
ColumnsOf(lines) == SelectSeq(lines, LAMBDA l : l.col # "")
ParseDefinitions(lines) ==
  [i \in DOMAIN ColumnsOf(lines) |->
     <<ColumnsOf(lines)[i].col, ColumnsOf(lines)[i].def>>]
OtherDefinitions(lines) ==
  {lines[i].def : i \in {j \in DOMAIN lines : lines[j].col = ""}}

\* fd of lines 1034-1040: the column part of a ForeignKey's definition as it
\* is, a Field's definition stripped
Fd(cls, name) ==
  IF Meta(cls).spec[name].kind = "ForeignKey"
  THEN ForeignKeyColumn(Meta(cls).spec[name])
  ELSE FieldDefinition(Meta(cls).spec[name])

\* lines 1031-1043: different_attrs and foreign_keys, in the order of
\* model.fields
DifferentAttrs(cls, defs) ==
  SelectSeq([i \in DOMAIN Meta(cls).fields |->
               <<Meta(cls).fields[i], Fd(cls, Meta(cls).fields[i])>>],
            LAMBDA p : ~(p[1] \in Keys(defs) /\ DictGet(defs, p[1]) = p[2]))

\* the ForeignKey fields whose key part is not among the other lines
KeyFields(cls, others) ==
  SelectSeq(Meta(cls).fields, LAMBDA a :
    /\ Meta(cls).spec[a].kind = "ForeignKey"
    /\ ForeignKeyConstraint(cls, a, Meta(cls).spec[a]) \notin others)
ForeignKeyEntry(cls, a) ==
  <<a, OnOneLine(ForeignKeyConstraint(cls, a, Meta(cls).spec[a]))>>
ForeignKeys(cls, others) ==
  [i \in DOMAIN KeyFields(cls, others) |->
     ForeignKeyEntry(cls, KeyFields(cls, others)[i])]

\* lines 1045-1047: the live columns that are no field's name and not in
\* different_attrs
DifferentColumns(cls, defs, attrs) ==
  SelectSeq(defs, LAMBDA p : /\ p[1] \notin SeqToSet(Meta(cls).fields)
                             /\ p[1] \notin Keys(attrs))

\* the test of line 1053, with Python's truth of a dict
skip_table(columns, attrs) == ~(columns # <<>> /\ attrs # <<>>)

MaxKeyRows == 1

\* what the prompts are answered with
Reps == {"1", "2", "3", "4"}
Positions == {"FIRST", "id", "zz"}
RenameSources == {"old", "zz"}
NewNames == {"new"}
EditedQueries == {<<"SELECT 1;">>}

\* the rows of INFORMATION_SCHEMA.KEY_COLUMN_USAGE that name a key which
\* references the table
KeyRows(n) ==
  [i \in 1..n |-> [TABLE_NAME |-> "E",
                   CONSTRAINT_NAME |-> <<"fk_E_", ToString(i)>>]]
KeyUsage == {KeyRows(n) : n \in 0..MaxKeyRows}

\* the prompt that follows entry i of a phase: the next entry, or the first
\* of the next phase that has one, or the confirmation
AfterFk(i, fks) ==
  IF i < Len(fks) THEN [pc |-> "fk", it |-> i + 1]
  ELSE [pc |-> "confirm", it |-> 0]
AfterCol(i, cols, fks) ==
  IF i < Len(cols) THEN [pc |-> "col", it |-> i + 1] ELSE AfterFk(0, fks)
AfterAttr(i, attrs, cols, fks) ==
  IF i < Len(attrs) THEN [pc |-> "attr", it |-> i + 1]
  ELSE AfterCol(0, cols, fks)

\* query.removesuffix(',') left out
KeepComma(q) == q

\* query.removesuffix(',')
RemoveComma(q) ==
  IF q # <<>> /\ q[Len(q)] = "," THEN SubSeq(q, 1, Len(q) - 1) ELSE q

\* the next prompt, the table's statement put before the others at the end
StepAlterFirst(n, q, qs) ==
  /\ pc' = n.pc
  /\ it' = n.it
  /\ query' = q
  /\ queries' = IF n.pc = "confirm"
                THEN <<RemoveComma(q) \o <<"\n;">>>> \o qs ELSE qs

\* the loops go on to prompt n with the text q and the statements qs; past
\* the last loop, line 1148 appends the text to the statements
Step(n, q, qs) ==
  /\ pc' = n.pc
  /\ it' = n.it
  /\ query' = q
  /\ queries' = IF n.pc = "confirm"
                THEN Append(qs, RemoveComma(q) \o <<"\n;">>) ELSE qs

\* migrate(): the call starts
migrate ==
  /\ pc \in {"import", "ready"}
  /\ sent' = <<>> /\ commits' = 0
  /\ pc' = "table" /\ mi' = 1
  /\ outcome' = "" /\ raised' = NoExc
  /\ UNCHANGED <<regvars, diffvars, different_columns, it, query, queries>>
  /\ UNCHANGED <<ret, call, assigns, condition, libvars>>

\* lines 1014-1054 for the table at hand, whose live lines are the input
Introspect(cls, lines) ==
  /\ sent' = Append(sent, <<"SHOW CREATE TABLE ", cls, ";">>)
  /\ definitions' = ParseDefinitions(lines)
  /\ different_attrs' = DifferentAttrs(cls, ParseDefinitions(lines))
  /\ foreign_keys' = ForeignKeys(cls, OtherDefinitions(lines))
  /\ different_columns' =
       DifferentColumns(cls, ParseDefinitions(lines),
                        DifferentAttrs(cls, ParseDefinitions(lines)))
  /\ IF skip_table(different_columns', different_attrs')
     THEN /\ mi' = mi + 1 /\ outcome' = "skipped"
          /\ pc' = "table" /\ it' = 0
          /\ query' = <<"ALTER TABLE ", cls>> /\ queries' = <<>>
     ELSE /\ mi' = mi /\ outcome' = "entered"
          /\ Step(AfterAttr(0, different_attrs', different_columns',
                            foreign_keys'),
                  <<"ALTER TABLE ", cls>>, <<>>)

NextTable ==
  /\ pc = "table" /\ mi <= Len(models)
  /\ \E lines \in Live(models[mi]) : Introspect(models[mi], lines)
  /\ UNCHANGED <<regvars, raised, commits>>
  /\ UNCHANGED <<ret, call, assigns, condition, libvars>>

\* the loop over models is exhausted: migrate() returns
Finished ==
  /\ pc = "table" /\ mi > Len(models)
  /\ pc' = "done"
  /\ UNCHANGED <<regvars, mi, diffvars, different_columns, it, query, queries,
                 outcome, raised>>
  /\ UNCHANGED <<ormvars, libvars>>

\* a return that first sends what was assembled
ReturnFlushing ==
  /\ pc' = "done" /\ outcome' = "aborted"
  /\ sent' = sent \o queries \o <<RemoveComma(query) \o <<"\n;">>>>
  /\ UNCHANGED <<commits, query, queries, it, different_columns>>

\* return, at an abort decision
Return ==
  /\ pc' = "done" /\ outcome' = "aborted"
  /\ UNCHANGED <<sent, commits, query, queries, it, different_columns>>

\* an exception other than KeyboardInterrupt leaves migrate()
Raises(exc) ==
  /\ pc' = "done" /\ outcome' = "raised" /\ raised' = exc
  /\ UNCHANGED <<sent, commits, query, queries, it, different_columns>>

\* the entry a phase prompts for
Attr == different_attrs[it][1]
Col == different_columns[it][1]

\* lines 1062-1112: the answer to the prompt for a different attribute
AttrChoice(rep) ==
  IF Attr \notin Keys(definitions)
  THEN CASE rep = "1" ->
              /\ pc' = "pos"
              /\ query' = query \o <<"\n\tADD ", "BQ", Attr, "BQ", " ">>
                          \o different_attrs[it][2]
              /\ UNCHANGED <<sent, commits, queries, it, different_columns,
                             outcome>>
         [] rep = "2" ->
              /\ pc' = "rename"
              /\ UNCHANGED <<sent, commits, query, queries, it,
                             different_columns, outcome>>
         [] rep = "3" ->
              /\ Step(AfterAttr(it, different_attrs, different_columns,
                                foreign_keys), query, queries)
              /\ UNCHANGED <<sent, commits, different_columns, outcome>>
         [] OTHER -> Return
  ELSE CASE rep = "1" ->
              /\ Step(AfterAttr(it, different_attrs, different_columns,
                                foreign_keys),
                      query \o <<"\n\tMODIFY ", "BQ", Attr, "BQ", " ">>
                      \o different_attrs[it][2] \o <<",">>, queries)
              /\ UNCHANGED <<sent, commits, different_columns, outcome>>
         [] rep = "2" ->
              /\ Step(AfterAttr(it, different_attrs, different_columns,
                                foreign_keys), query, queries)
              /\ UNCHANGED <<sent, commits, different_columns, outcome>>
         [] OTHER -> Return

AttrPrompt ==
  /\ pc = "attr"
  /\ \E rep \in Reps : AttrChoice(rep)
  /\ UNCHANGED <<regvars, mi, diffvars, raised>>
  /\ UNCHANGED <<ret, call, assigns, condition, libvars>>

\* the primary keys other than attr, when attr is one (lines 1076-1079)
OtherPks(cls, attr) ==
  IF attr \in SeqToSet(Meta(cls).primary_keys)
  THEN SelectSeq(Meta(cls).primary_keys, LAMBDA pk : pk # attr)
  ELSE <<>>

\* the statement of lines 1080-1085
KeyUsageSelect(cls, pk) ==
  <<"SELECT TABLE_NAME, COLUMN_NAME, CONSTRAINT_NAME",
    "\nFROM INFORMATION_SCHEMA.KEY_COLUMN_USAGE",
    "\nWHERE REFERENCED_TABLE_NAME = '", cls, "'",
    "\nAND REFERENCED_COLUMN_NAME = '", pk, "'", "\n;">>

\* line 1087, for each row fetched
DropKeys(rows) ==
  [j \in DOMAIN rows |->
     <<"ALTER TABLE ", rows[j].TABLE_NAME, "\n\tDROP KEY ">>
     \o rows[j].CONSTRAINT_NAME \o <<"\n;\n">>]

\* line 1088, when attr is a primary key
PrimaryKeyClauses(cls, attr) ==
  IF attr \in SeqToSet(Meta(cls).primary_keys)
  THEN <<",", "\n\tDROP PRIMARY KEY", ",", "\n\tADD PRIMARY KEY(">>
       \o JoinComma(Meta(cls).primary_keys) \o <<")">>
  ELSE <<>>

PositionClause(pos) ==
  IF pos = "FIRST" THEN <<" FIRST">> ELSE <<" AFTER ", pos>>

\* lines 1069-1088 and 1113: the answer to "Column Position: "; fetched are
\* the rows the cursor returns for each of the other primary keys
PosChoice(cls, pos, fetched) ==
  IF pos # "FIRST" /\ pos \notin Keys(definitions)
  THEN Raises("ValueError")
  ELSE /\ sent' = sent \o [i \in DOMAIN OtherPks(cls, Attr) |->
                             KeyUsageSelect(cls, OtherPks(cls, Attr)[i])]
       /\ Step(AfterAttr(it, different_attrs, different_columns,
                         foreign_keys),
               query \o PositionClause(pos) \o PrimaryKeyClauses(cls, Attr)
               \o <<",">>,
               queries \o Flatten([i \in DOMAIN fetched |->
                                     DropKeys(fetched[i])]))
       /\ UNCHANGED <<commits, different_columns, outcome, raised>>

PosPrompt ==
  /\ pc = "pos"
  /\ \E pos \in Positions,
        fetched \in [DOMAIN OtherPks(models[mi], Attr) -> KeyUsage] :
       PosChoice(models[mi], pos, fetched)
  /\ UNCHANGED <<regvars, mi, diffvars>>
  /\ UNCHANGED <<ret, call, assigns, condition, libvars>>

\* the dict left as it is
DictKeep(d, k) == d

\* del different_columns[col]
DictDel(d, k) == SelectSeq(d, LAMBDA p : p[1] # k)

\* lines 1090-1092 and 1113: the answer to "Column to rename: "
RenameChoice(col) ==
  IF col \notin Keys(different_columns)
  THEN Raises("KeyError")
  ELSE /\ different_columns' = DictDel(different_columns, col)
       /\ Step(AfterAttr(it, different_attrs, different_columns',
                         foreign_keys),
               query \o <<"\n\tCHANGE ", col, " ", Attr, " ">>
               \o different_attrs[it][2] \o <<",">>, queries)
       /\ UNCHANGED <<sent, commits, outcome, raised>>

RenamePrompt ==
  /\ pc = "rename"
  /\ \E col \in RenameSources : RenameChoice(col)
  /\ UNCHANGED <<regvars, mi, diffvars>>
  /\ UNCHANGED <<ret, call, assigns, condition, libvars>>

\* lines 1120-1131: the answer to the prompt for a different column
ColChoice(rep) ==
  CASE rep = "1" ->
         /\ pc' = "newname"
         /\ UNCHANGED <<sent, commits, query, queries, it,
                        different_columns, outcome>>
    [] rep = "2" ->
         /\ Step(AfterCol(it, different_columns, foreign_keys),
                 query \o <<"\n\tDROP ", "BQ", Col, "BQ", ",">>, queries)
         /\ UNCHANGED <<sent, commits, different_columns, outcome>>
    [] rep = "3" ->
         /\ Step(AfterCol(it, different_columns, foreign_keys), query,
                 queries)
         /\ UNCHANGED <<sent, commits, different_columns, outcome>>
    [] OTHER -> Return

ColPrompt ==
  /\ pc = "col"
  /\ \E rep \in Reps : ColChoice(rep)
  /\ UNCHANGED <<regvars, mi, diffvars, raised>>
  /\ UNCHANGED <<ret, call, assigns, condition, libvars>>

\* lines 1122-1123 and 1131: the answer to "New name: "
NewNamePrompt ==
  /\ pc = "newname"
  /\ \E new_name \in NewNames :
       Step(AfterCol(it, different_columns, foreign_keys),
            query \o <<"\n\tCHANGE ", "BQ", Col, "BQ", " ", "BQ", new_name,
                       "BQ", " ">>
            \o different_columns[it][2] \o <<",">>, queries)
  /\ UNCHANGED <<sent, commits, different_columns, outcome>>
  /\ UNCHANGED <<regvars, mi, diffvars, raised>>
  /\ UNCHANGED <<ret, call, assigns, condition, libvars>>

\* lines 1138-1146: the answer to the prompt for a foreign key
FkChoice(rep) ==
  CASE rep = "1" ->
         /\ Step(AfterFk(it, foreign_keys),
                 query \o <<"\n\tADD ">> \o foreign_keys[it][2] \o <<",">>,
                 queries)
         /\ UNCHANGED <<sent, commits, different_columns, outcome>>
    [] rep = "2" ->
         /\ Step(AfterFk(it, foreign_keys), query, queries)
         /\ UNCHANGED <<sent, commits, different_columns, outcome>>
    [] OTHER -> Return

FkPrompt ==
  /\ pc = "fk"
  /\ \E rep \in Reps : FkChoice(rep)
  /\ UNCHANGED <<regvars, mi, diffvars, raised>>
  /\ UNCHANGED <<ret, call, assigns, condition, libvars>>

\* _check_query sending the statements before it asks for the new text
ConfirmChoiceEager(rep) ==
  CASE rep = "1" ->
         /\ sent' = sent \o queries
         /\ commits' = commits + 1
         /\ pc' = "table" /\ mi' = mi + 1 /\ outcome' = "executed"
    [] rep = "2" ->
         /\ pc' = "edit"
         /\ sent' = sent \o queries
         /\ UNCHANGED <<commits, mi, outcome>>
    [] OTHER ->
         /\ pc' = "table" /\ mi' = mi + 1 /\ outcome' = "declined"
         /\ UNCHANGED <<sent, commits>>

\* _check_query: the answer to "1). Execute 2). Modify query 3). Abort";
\* when it returns, the loop of migrate() goes on to the next table
ConfirmChoice(rep) ==
  CASE rep = "1" ->
         /\ sent' = sent \o queries
         /\ commits' = commits + 1
         /\ pc' = "table" /\ mi' = mi + 1 /\ outcome' = "executed"
    [] rep = "2" ->
         /\ pc' = "edit"
         /\ UNCHANGED <<sent, commits, mi, outcome>>
    [] OTHER ->
         /\ pc' = "table" /\ mi' = mi + 1 /\ outcome' = "declined"
         /\ UNCHANGED <<sent, commits>>

ConfirmPrompt ==
  /\ pc = "confirm"
  /\ \E rep \in Reps : ConfirmChoice(rep)
  /\ UNCHANGED <<regvars, diffvars, different_columns, it, query, queries,
                 raised>>
  /\ UNCHANGED <<ret, call, assigns, condition, libvars>>

\* _check_query: the answer to "Query: " replaces the statements
EditPrompt ==
  /\ pc = "edit"
  /\ \E q \in EditedQueries : queries' = <<q>>
  /\ pc' = "confirm"
  /\ UNCHANGED <<regvars, mi, diffvars, different_columns, it, query,
                 outcome, raised>>
  /\ UNCHANGED <<ormvars, libvars>>

DecisionPrompts == {"attr", "pos", "rename", "col", "newname", "fk"}

\* KeyboardInterrupt, caught at line 1150: at a prompt of the decision
\* phases, or later, where the statements may have been sent in part
Interrupt ==
  /\ pc \in DecisionPrompts \cup {"confirm", "edit"}
  /\ pc' = "done"
  /\ IF pc \in DecisionPrompts
     THEN outcome' = "interrupted" /\ sent' = sent
     ELSE /\ outcome' = "interrupted late"
          /\ \E n \in 0..Len(queries) :
               sent' = sent \o SubSeq(queries, 1, IF pc = "edit" THEN 0 ELSE n)
  /\ UNCHANGED <<regvars, mi, diffvars, different_columns, it, query,
                 queries, raised, commits>>
  /\ UNCHANGED <<ret, call, assigns, condition, libvars>>

MigrateNext ==
  \/ Declare
  \/ create_tables
  \/ migrate
  \/ NextTable
  \/ Finished
  \/ AttrPrompt
  \/ PosPrompt
  \/ RenamePrompt
  \/ ColPrompt
  \/ NewNamePrompt
  \/ FkPrompt
  \/ ConfirmPrompt
  \/ EditPrompt
  \/ Interrupt

\* ----------------------------------------------------------- specifications
vars == <<sent, commits, ret, call, assigns, condition, models, declared, pc,
          mi, definitions, different_attrs, different_columns, foreign_keys,
          it, query, queries, outcome, raised, subject, returned>>

\* no field, column type or query object has been used directly
NoObject == subject = <<>> /\ returned = <<>>

\* no migration is under way
NoRun ==
  /\ mi = 0 /\ it = 0
  /\ definitions = <<>> /\ different_attrs = <<>>
  /\ different_columns = <<>> /\ foreign_keys = <<>>
  /\ query = <<>> /\ queries = <<>>
  /\ outcome = "" /\ raised = NoExc

\* the query sets: the classes A, B and C are declared, the tables exist
Init ==
  /\ OrmInit
  /\ models = <<"A", "B", "C">>
  /\ declared = [i \in 1..3 |-> [name |-> models[i], model |-> TRUE]]
  /\ pc = "ready"
  /\ NoRun
  /\ NoObject

Next == OrmNext
Spec == Init /\ [][Next]_vars

\* the registry and the migration: a program declares its classes and calls
\* create_tables() and migrate()
MigrateInit ==
  /\ OrmInit
  /\ models = <<>>
  /\ declared = <<>>
  /\ pc = "import"
  /\ NoRun
  /\ NoObject

MigrateSpec == MigrateInit /\ [][MigrateNext]_vars

\* ------------------------------------------------------------------- claims
\* what the claims call the errors: UnknownField and RelationMismatch are the
\* ValueError the query sets raise, TypeMismatch the TypeError of to_sql
UnknownField == "ValueError"
RelationMismatch == "ValueError"
TypeMismatch == "TypeError"

\* the keys of the keywords are all declared, and the values of the kind of
\* their columns: a str (or bytes) for a string column, an int for an integer
KwDeclared(cls, kw) == \A i \in DOMAIN kw : HasField(cls, kw[i][1])
KindFits(type, x) ==
  IF type = "String" THEN x.k \in {"str", "bytes"} ELSE x.k \in {"int", "bool"}
KwFits(cls, kw) ==
  \A i \in DOMAIN kw :
    HasField(cls, kw[i][1]) => KindFits(TypeOfKw(cls, kw, i), kw[i][2])

\* the UPDATE the claim C1 describes for record.name = value
ClaimedUpdate(obj, name, value) ==
  Chop(<<"UPDATE ", obj.cls, " SE", "T ", name, " = ">>
       \o to_sql(Meta(obj.cls).spec[name].type, value)
       \o <<" W", "HERE ">> \o PrimaryText(obj.primary_data), 5) \o <<";">>

\* C1: a Record obtained from get() is matched once it is populated, and an
\* assignment to a declared attribute without a custom setter then sends
\* exactly one UPDATE of the Record's table, setting that column to the
\* value's SQL literal, restricted by primary_data.  (That a fresh get()
\* returns the value is the database's part and is not stated here.)
C1_AssignmentIsOneUpdate ==
  /\ (call.op = "get" /\ call.exc = NoExc /\ ret # <<>>) => ret[1].matched
  /\ ( /\ call.op = "setattr" /\ call.arg = "get"
       /\ HasField(call.cls, call.kw[1][1])
       /\ ~Meta(call.cls).spec[call.kw[1][1]].set_value
       /\ KwFits(call.cls, call.kw) )
     => /\ call.exc = NoExc
        /\ sent = <<ClaimedUpdate(ret[1], call.kw[1][1], call.kw[1][2])>>

\* C2: an attribute assignment made while the Record is not matched (in the
\* construction with match=False, in the population by match_attr) sends no
\* statement: the construction with match=False sends nothing at all, and no
\* UPDATE is among the statements of a call that populates Records
C2_UnmatchedAssignmentSendsNothing ==
  /\ \A a \in assigns : ~a.matched => a.stmts = 0
  /\ call.op = "construct" => sent = <<>> /\ commits = 0
  /\ call.op \in {"construct", "get", "filter", "all"}
     => \A i \in DOMAIN sent : sent[i][1] # "UPDATE "

\* C2 witness: a get() whose Record was populated by match_attr, with its
\* assignments made unmatched, while match_attr itself sent a statement
C2_Witness ==
  /\ call.op = "get" /\ call.exc = NoExc /\ ret # <<>>
  /\ Len(sent) >= 2
  /\ \E a \in assigns : ~a.matched /\ a.cls = call.cls

\* C5: a keyword that is not a declared attribute makes create, get, filter,
\* count, update and create_or_update raise UnknownField with nothing sent
\* (stated for calls whose other keywords carry values of their columns' kind)
C5_UnknownFieldBeforeSql ==
  ( /\ call.op \in {"create", "get", "filter", "count", "update",
                    "create_or_update"}
    /\ ~KwDeclared(call.cls, call.kw)
    /\ KwFits(call.cls, call.kw) )
  => call.exc = UnknownField /\ sent = <<>>

\* C6: a value of a kind its column does not take makes create, update,
\* create_or_update and the assignment to a Record obtained from get() raise
\* TypeMismatch with nothing sent
C6_TypeMismatchBeforeSql ==
  ( /\ \/ call.op \in {"create", "update", "create_or_update"}
       \/ call.op = "setattr" /\ call.arg = "get"
    /\ KwDeclared(call.cls, call.kw)
    /\ ~KwFits(call.cls, call.kw) )
  => call.exc = TypeMismatch /\ sent = <<>>

\* C7: create(fields...) sends exactly one INSERT, commits once and returns a
\* Record whose attribute values are the given ones
C7_CreateReturnsRecord ==
  ( /\ call.op = "create" /\ call.kw # <<>>
    /\ KwDeclared(call.cls, call.kw) /\ KwFits(call.cls, call.kw) )
  => /\ call.exc = NoExc
     /\ Len(sent) = 1 /\ sent[1][1] = "INSERT INTO " /\ commits = 1
     /\ Len(ret) = 1
     /\ \A i \in DOMAIN call.kw :
          /\ call.kw[i][1] \in Keys(ret[1].attrs)
          /\ DictGet(ret[1].attrs, call.kw[i][1]) = call.kw[i][2]

\* the table has a foreign key whose referenced table is parent
RefersTo(cls, parent) ==
  \E i \in DOMAIN Meta(cls).foreign_keys :
    Meta(cls).spec[Meta(cls).foreign_keys[i]].table = parent

\* C8: get(parent, ...) and filter(parent, ...) on a table without a foreign
\* key to the parent's table raise RelationMismatch, whatever the SELECT
\* returns
C8_RelationMismatchRaised ==
  ( /\ call.op \in {"get", "filter"}
    /\ call.arg \in Tables
    /\ ~RefersTo(call.cls, call.arg) )
  => call.exc = RelationMismatch

\* the SELECT the claim C10 describes: the parent joined on every
\* inheritance foreign key, then the equality filters
ClaimedJoin(cls, kw) ==
  Chop(<<"SELECT * FROM ", cls, "\nINNER JOIN ", Meta(cls).base, " ON ">>
       \o Flatten([i \in DOMAIN Meta(cls).foreign_keys_for_join |->
                     <<cls, ".", Meta(cls).foreign_keys_for_join[i], " = ",
                       Meta(cls).base, ".",
                       Meta(cls).spec[Meta(cls).foreign_keys_for_join[i]].ref,
                       " AND ">>]), 5)
  \o (IF kw = <<>> THEN <<>>
      ELSE Chop(<<"\nW", "HERE ">>
                \o Flatten([i \in DOMAIN kw |->
                              <<kw[i][1], " = ", "'">> \o Str(kw[i][2])
                              \o <<"'", " AND ">>]), 5))
  \o <<";">>

\* C10: get, filter and all of a derived table send the SELECT that joins
\* the parent on every inheritance foreign key and applies the filters, for
\* every set of filters, the empty one included
C10_DerivedSelectJoinsParent ==
  ( /\ call.op \in {"get", "filter", "all"}
    /\ call.cls \in JoinedTables
    /\ KwDeclared(call.cls, call.kw) )
  => /\ call.exc = NoExc
     /\ sent # <<>>
     /\ sent[1] = ClaimedJoin(call.cls, call.kw)


\* C3: migrate() skips a table exactly when different_columns and
\* different_attrs are both empty; with one of them non-empty the table
\* enters the decision phases
C3_SkipExactlyWhenBothEmpty ==
  /\ outcome = "skipped" => different_attrs = <<>> /\ different_columns = <<>>
  /\ outcome = "entered" => different_attrs # <<>> \/ different_columns # <<>>

\* the statements sent since the SHOW CREATE TABLE of the table at hand
SinceShow ==
  {i \in DOMAIN sent :
     \E j \in DOMAIN sent :
       /\ j < i /\ sent[j] = <<"SHOW CREATE TABLE ", models[mi], ";">>}

\* C4: after an abort decision or an interrupt in one of the three decision
\* phases, migrate() has ended without an error and has sent no ALTER TABLE
\* (so no DROP KEY either) since it read the table's definition
C4_AbortSendsNothing ==
  outcome \in {"aborted", "interrupted"}
  => /\ pc = "done" /\ raised = NoExc
     /\ \A i \in SinceShow : sent[i][1] # "ALTER TABLE "

\* C4 witness: an abort or interrupt with a clause assembled and a DROP KEY
\* statement awaiting confirmation
C4_Witness ==
  /\ outcome \in {"aborted", "interrupted"}
  /\ Len(query) > 2
  /\ queries # <<>>

\* the SHOW CREATE TABLE statements migrate() has sent
Shows == SelectSeq(sent, LAMBDA q : q[1] = "SHOW CREATE TABLE ")

\* the index of the first class statement that declares name as a table
FirstDeclaration(name) ==
  CHOOSE i \in DOMAIN declared :
    /\ declared[i] = [name |-> name, model |-> TRUE]
    /\ \A j \in 1..(i - 1) : declared[j] # declared[i]

\* C9: the registry has one entry for each name declared as a table and
\* none else, no name twice, in the order of the first declarations;
\* create_tables() sends its statements, and migrate() reads the tables, in
\* the order of the registry
C9_RegistryUniqueInOrder ==
  /\ \A i, j \in DOMAIN models : models[i] = models[j] => i = j
  /\ SeqToSet(models) = {declared[i].name :
                           i \in {j \in DOMAIN declared : declared[j].model}}
  /\ \A i, j \in DOMAIN models :
       i < j => FirstDeclaration(models[i]) < FirstDeclaration(models[j])
  /\ pc = "ready" =>
       /\ Len(sent) = Len(models)
       /\ \A i \in DOMAIN sent :
            /\ sent[i][1] = "CREATE TABLE IF NOT EXISTS "
            /\ sent[i][3] = models[i]
  /\ pc \notin {"import", "ready"} =>
       /\ Len(Shows) <= Len(models)
       /\ \A i \in DOMAIN Shows : Shows[i][2] = models[i]
       /\ Len(Shows) = IF pc = "table" THEN mi - 1
                       ELSE IF mi > Len(models) THEN Len(models) ELSE mi

\* C9 witness: a name was declared twice as a table and is registered once,
\* and migrate() has gone through the registry
C9_Witness ==
  /\ \E i, j \in DOMAIN declared :
       i < j /\ declared[i] = declared[j] /\ declared[i].model
  /\ Len(models) = 1
  /\ pc = "done" /\ Len(Shows) = Len(models)

\* the table whose diff the state holds: the one just skipped, or the one
\* whose first prompt is due
Diffed == IF outcome = "skipped" THEN models[mi - 1] ELSE models[mi]
JustDiffed ==
  \/ outcome = "skipped" /\ pc = "table"
  \/ outcome = "entered" /\ pc = "attr" /\ it = 1 /\ Len(query) = 2

\* the declared fields whose live column is missing or is defined by another
\* text than the declaration's column definition
DiffersFromLive(cls) ==
  {a \in SeqToSet(Meta(cls).fields) :
     \/ a \notin Keys(definitions)
     \/ DictGet(definitions, a) # LiveDefinition(cls, a)}

\* C11: the diff of migrate() has in different_attrs exactly the declared
\* fields whose definition differs from the live definition of the same name
\* (the fields without a live column included), and in different_columns
\* exactly the live columns that are neither declared nor in different_attrs
C11_DiffIsExact ==
  JustDiffed
  => /\ Keys(different_attrs) = DiffersFromLive(Diffed)
     /\ Keys(different_columns) =
          {c \in Keys(definitions) :
             /\ c \notin SeqToSet(Meta(Diffed).fields)
             /\ c \notin Keys(different_attrs)}

\* the tokens a clause of ALTER TABLE starts with
ClauseHeads ==
  {"\n\tADD ", "\n\tCHANGE ", "\n\tMODIFY ", "\n\tDROP ",
   "\n\tDROP PRIMARY KEY", "\n\tADD PRIMARY KEY("}
Heads(q) == {i \in DOMAIN q : q[i] \in ClauseHeads}

\* the statements awaiting confirmation are the assembled ones, not a text
\* the operator typed in
Assembled ==
  /\ pc = "confirm"
  /\ queries # <<>>
  /\ queries[Len(queries)][1] = "ALTER TABLE "

\* the ALTER TABLE statement of the table at hand among those awaiting
\* confirmation
OwnAlter == queries[Len(queries)]

\* clauses separated by one comma each, none before the first or after the
\* last, and the semicolon at the end
CommaSeparated(stmt) ==
  /\ stmt[Len(stmt)] = "\n;"
  /\ stmt[Len(stmt) - 1] # ","
  /\ 3 \in Heads(stmt)
  /\ \A i \in Heads(stmt) : i > 3 => stmt[i - 1] = ","
  /\ \A i \in DOMAIN stmt : stmt[i] = "," => (i + 1) \in Heads(stmt)

\* C12: when at least one change was accepted, the statements handed to the
\* confirmation hold exactly one ALTER TABLE of the table, its clauses
\* separated by commas, without a trailing comma and ended by a semicolon;
\* an answer that adds no clause (a skip) leaves the text as it was
C12_OneAlterCommaSeparated ==
  /\ [](Assembled /\ Heads(OwnAlter) # {}
        => /\ Cardinality({i \in DOMAIN queries :
                             /\ queries[i][1] = "ALTER TABLE "
                             /\ queries[i][2] = models[mi]}) = 1
           /\ OwnAlter[2] = models[mi]
           /\ CommaSeparated(OwnAlter))
  /\ [][(pc \in {"attr", "col", "fk"} /\ Heads(query') = Heads(query))
        => (query' = query)]_vars

\* C12 witness: a DROP and an ADD accepted for one table await confirmation
C12_Witness ==
  /\ Assembled
  /\ \E i, j \in Heads(OwnAlter) :
       OwnAlter[i] = "\n\tADD " /\ OwnAlter[j] = "\n\tDROP "


\* ------------------------------------------------- fields, used directly
\* the defaults a Field of a type is declared with: none, a value of the
\* type, or SQL text
Defaults(type) ==
  {PyNone, RawFormat("NOW()"),
   IF type = "String" THEN PyStr(<<"a">>) ELSE PyInt("1")}

\* the Field(...) calls: every type, nullable, pk, default, auto_increament,
\* with and without raw_args
FieldCalls ==
  {[Field(type, pk, default) EXCEPT !.nullable = nullable,
                                     !.auto_increament = auto,
                                     !.raw_args = raw_args] :
     type \in {"String", "Integer"}, pk \in BOOLEAN, nullable \in BOOLEAN,
     default \in Defaults("String") \cup Defaults("Integer"),
     auto \in BOOLEAN, raw_args \in {<<>>, <<"UNIQUE">>}}

\* a program is about to construct one Field
FieldInit ==
  /\ OrmInit
  /\ models = <<>>
  /\ declared = <<>>
  /\ pc = "import"
  /\ NoRun
  /\ subject \in {f \in FieldCalls : f.default \in Defaults(f.type)}
  /\ returned = <<>>

\* Field.__init__ leaves the definition text on the field
Field_init ==
  /\ returned = <<>>
  /\ returned' = FieldDefinition(subject)
  /\ UNCHANGED <<ormvars, migvars, subject>>

FieldSpec == FieldInit /\ [][Field_init]_vars


\* the field has its definition, and t is one of the definition's clauses
Renders(t) == \E i \in DOMAIN returned : returned[i] = t

\* the literal a DEFAULT clause is to carry for the field's default
DefaultLiteral ==
  IF subject.default.k = "raw" THEN subject.default.v
  ELSE <<"'">> \o subject.default.v \o <<"'">>

\* the definition has a DEFAULT clause carrying the field's default
RendersDefault ==
  \E i \in DOMAIN returned :
    /\ returned[i] = "DEFAULT "
    /\ i + Len(DefaultLiteral) <= Len(returned)
    /\ SubSeq(returned, i + 1, i + Len(DefaultLiteral)) = DefaultLiteral

RawValues(type) ==
  CASE type = "String" ->
         {PyStr(<<"a">>), PyStr(<<"it", "'", "s">>),
          PyStr(<<"say ", "\"", "hi", "\"">>), PyStr(<<"a", "\\", "n">>)}
    [] type = "Integer" ->
         {PyInt(t) : t \in {"-1", "0", "1", "42"}}
         \cup {PyStr(<<t>>) : t \in {"-1", "0", "1", "42"}}
    [] type = "Boolean" -> {PyInt("0"), PyInt("1")}
    [] type = "Bit" ->
         {PyInt(t) : t \in {"0", "1", "2", "3", "4", "5", "6", "7"}}
    [] type = "Enum" -> {PyStr(<<"RED">>), PyStr(<<"BLUE">>)}
    [] type = "Set" ->
         {PyStr(<<"RED">>), PyStr(<<"BLUE">>), PyStr(<<"RED", ",", "BLUE">>),
          PyStr(<<"BLUE", ",", "RED">>)}
    [] type = "Json" ->
         {PyStr(<<"1">>), PyStr(<<"null">>), PyStr(<<"true">>),
          PyStr(<<"\"", "a", "\"">>),
          PyStr(<<"{", "\"", "a", "\"", ": ", "1", "}">>)}
    [] OTHER ->
         {PyStr(<<"2024-01-01", " ", "00:00:00">>),
          PyStr(<<"2024-01-01", "T", "12:30:00">>)}

ColumnTypes ==
  {"String", "Integer", "Boolean", "Bit", "Enum", "Set", "Json", "TimeStamp"}

\* a program is about to convert one raw value of one column type
TypeInit ==
  /\ OrmInit
  /\ models = <<>>
  /\ declared = <<>>
  /\ pc = "import"
  /\ NoRun
  /\ subject \in {[type |-> type, x |-> x] :
                    type \in ColumnTypes,
                    x \in UNION {RawValues(t) : t \in ColumnTypes}}
  /\ subject.x \in RawValues(subject.type)
  /\ returned = <<>>

\* value = type.to_python(x)
ToPython ==
  /\ returned = <<>>
  /\ returned' = <<to_python(subject.type, subject.x)>>
  /\ UNCHANGED <<ormvars, migvars, subject>>

\* type.to_sql(value), which may raise TypeError
ToSql ==
  /\ Len(returned) = 1
  /\ returned' = Append(returned,
                        IF to_sql_raises(subject.type, returned[1])
                        THEN <<"TypeError">>
                        ELSE to_sql(subject.type, returned[1]))
  /\ UNCHANGED <<ormvars, migvars, subject>>

TypeNext == ToPython \/ ToSql
TypeSpec == TypeInit /\ [][TypeNext]_vars


\* what a MySQL string literal's escapes stand for
RECURSIVE Unescape(_)
Unescape(ts) ==
  IF ts = <<>> THEN <<>>
  ELSE IF ts[1] = "\\'" THEN <<"'">> \o Unescape(Tail(ts))
  ELSE IF ts[1] = "\\\"" THEN <<"\"">> \o Unescape(Tail(ts))
  ELSE IF ts[1] = "\\" /\ Len(ts) > 1
       THEN <<IF ts[2] = "n" THEN "\n" ELSE ts[2]>> \o Unescape(Tail(Tail(ts)))
  ELSE <<ts[1]>> \o Unescape(Tail(ts))

\* the text is a quoted string literal
IsQuoted(lit) ==
  /\ Len(lit) >= 2
  /\ lit[1] = "'" /\ lit[Len(lit)] = "'"
  /\ \A i \in 2..(Len(lit) - 1) : lit[i] # "'"
Inner(lit) == SubSeq(lit, 2, Len(lit) - 1)

\* the text of a timestamp with a blank between the date and the time
Blank(ts) == [i \in DOMAIN ts |-> IF ts[i] = "T" THEN " " ELSE ts[i]]

\* the text lit is a SQL literal of the column type, and the value it denotes
\* is the one the raw value x stands for
Denotes(type, lit, x) ==
  CASE type = "String" -> IsQuoted(lit) /\ Unescape(Inner(lit)) = x.v
    [] type = "Integer" -> lit = x.v
    [] type = "Boolean" ->
         \/ lit = <<"TRUE">> /\ x.v = <<"1">>
         \/ lit = <<"FALSE">> /\ x.v = <<"0">>
    [] type = "Bit" ->
         /\ Len(lit) >= 3 /\ lit[1] = "b'" /\ lit[Len(lit)] = "'"
         /\ Padded(Binary(x.v[1]), Len(lit) - 2) = Inner(lit)
    [] type = "Enum" -> IsQuoted(lit) /\ Inner(lit) = x.v
    [] type = "Set" -> IsQuoted(lit) /\ Inner(lit) = x.v
    [] type = "Json" ->
         \/ IsQuoted(lit) /\ json_loads(PyStr(Inner(lit))) = json_loads(x)
         \/ lit = x.v /\ json_loads(x).k = "int"
    [] OTHER -> IsQuoted(lit) /\ Blank(Inner(lit)) = Blank(x.v)

\* C14: for every column type and every raw value x, to_sql(to_python(x)) is
\* a SQL literal that denotes the value of x
C14_RoundTrip ==
  Len(returned) = 2 /\ subject.type \in ColumnTypes
    => Denotes(subject.type, returned[2], subject.x)


\* 'key = value' of every entry of primary_data, with AND between them
RECURSIVE Conjunction(_)
Conjunction(primary_data) ==
  IF primary_data = <<>> THEN <<>>
  ELSE <<primary_data[1][1], " = ">> \o Str(primary_data[1][2])
       \o (IF Len(primary_data) = 1 THEN <<>> ELSE <<" AND ">>)
       \o Conjunction(Tail(primary_data))

\* C15: delete() on a Record sends exactly one DELETE on the Record's table
\* whose WHERE is the conjunction over the Record's primary_data, and
\* commits it; no Record has a DELETE sent that primary_data does not
\* restrict
C15_DeleteIsRestricted ==
  call.op = "delete" =>
    /\ Len(sent) = 1 /\ commits = 1
    /\ ret[1].primary_data # <<>>
    /\ sent[1] = <<"DELETE FROM ", ret[1].cls, " W", "HERE ">>
                 \o Conjunction(ret[1].primary_data) \o <<";">>


\* the live columns the phase of the attributes has renamed so far: the
\* names that follow CHANGE without a quote
Consumed ==
  {query[i + 1] : i \in {j \in 1..(Len(query) - 1) :
                           query[j] = "\n\tCHANGE " /\ query[j + 1] # "BQ"}}

\* the live columns the phase of the columns has given a clause
ColumnClauses ==
  {query[i + 2] : i \in {j \in 1..(Len(query) - 2) :
                           /\ query[j] \in {"\n\tCHANGE ", "\n\tDROP "}
                           /\ query[j + 1] = "BQ"}}

\* the phase a prompt belongs to: attributes, columns, foreign keys,
\* confirmation
Phase(p) ==
  CASE p \in {"attr", "pos", "rename"} -> 1
    [] p \in {"col", "newname"} -> 2
    [] p = "fk" -> 3
    [] p \in {"confirm", "edit"} -> 4
    [] OTHER -> 0

\* C16: while a table is migrated, a live column renamed in the phase of the
\* attributes is no longer in different_columns, the phase of the columns
\* neither prompts for it nor gives it a clause, and the phases of one table
\* run in the order attributes, columns, foreign keys, confirmation
C16_RenamedColumnLeavesPhaseTwo ==
  /\ [](Phase(pc) > 0 /\ Consumed # {}
          => /\ Consumed \cap Keys(different_columns) = {}
             /\ Consumed \cap ColumnClauses = {}
             /\ pc \in {"col", "newname"} => Col \notin Consumed)
  /\ [][(Phase(pc) > 0 /\ Phase(pc') > 0) => (Phase(pc) <= Phase(pc'))]_vars

\* C16 witness: the phase of the columns prompts for zz after old was
\* renamed in the phase of the attributes
C16_Witness ==
  /\ pc = "col"
  /\ "old" \in Consumed
  /\ Col = "zz"


\* the statements the step has sent
NewlySent == SubSeq(sent', Len(sent) + 1, Len(sent'))

\* the step sends a statement that changes a table
SendsAlter ==
  /\ Len(sent') > Len(sent)
  /\ \E i \in DOMAIN NewlySent :
       NewlySent[i][1] = "ALTER TABLE " \/ NewlySent[i] \in EditedQueries

\* C17: the statements assembled for a table reach the Session only at the
\* confirmation and only on the answer execute (or on an interrupt that
\* arrives while they are executed): the answer abort sends nothing, the
\* answer edit sends nothing, replaces the pending statements by the text
\* entered and prompts again, and the answer execute sends each pending
\* statement once, in order, and commits once; none of them was sent before
C17_SentOnlyOnExecute ==
  /\ [](pc \in {"confirm", "edit"}
          => \A i \in SinceShow : /\ sent[i][1] # "ALTER TABLE "
                                  /\ sent[i] \notin EditedQueries)
  /\ [][(SendsAlter)
          => (pc = "confirm" /\ outcome' \in {"executed", "interrupted late"})]_vars
  /\ [][(pc = "confirm" /\ outcome' = "executed")
          => (sent' = sent \o queries /\ commits' = commits + 1)]_vars
  /\ [][(pc = "confirm" /\ outcome' = "declined")
          => (sent' = sent /\ commits' = commits)]_vars
  /\ [][(pc = "confirm" /\ pc' = "edit")
          => (sent' = sent /\ commits' = commits)]_vars
  /\ [][(pc = "edit" /\ pc' = "confirm")
          => (/\ sent' = sent /\ commits' = commits
              /\ queries' \in {<<q>> : q \in EditedQueries})]_vars

\* C17 witness: the operator edited the statements and had the new text
\* executed; it was sent once and committed
C17_Witness ==
  /\ outcome = "executed"
  /\ queries \in {<<q>> : q \in EditedQueries}
  /\ sent[Len(sent)] = queries[1]
  /\ commits >= 1


\* the positions in a list of statements of the DROP KEY statements, and of
\* the ALTER TABLE of table cls itself
DropKeyAt(stmts) ==
  {i \in DOMAIN stmts : Len(stmts[i]) > 2 /\ stmts[i][3] = "\n\tDROP KEY "}
OwnAlterAt(stmts, cls) ==
  {i \in DOMAIN stmts :
     /\ Len(stmts[i]) > 2
     /\ stmts[i][1] = "ALTER TABLE " /\ stmts[i][2] = cls
     /\ stmts[i][3] # "\n\tDROP KEY "}

\* the table's ALTER TABLE changes the primary key
ChangesPrimaryKey(stmt) ==
  /\ \E i \in DOMAIN stmt : stmt[i] = "\n\tDROP PRIMARY KEY"
  /\ \E i \in DOMAIN stmt : stmt[i] = "\n\tADD PRIMARY KEY("

\* the list was executed as it was assembled
ExecutedAssembled ==
  /\ outcome = "executed" /\ pc = "table"
  /\ OwnAlterAt(queries, models[mi - 1]) # {}

\* C18: in the list handed to the confirmation every DROP KEY statement
\* stands before the ALTER TABLE of the table at hand, which carries DROP
\* PRIMARY KEY and ADD PRIMARY KEY whenever there is a DROP KEY statement;
\* and when the list is executed, the statements are sent in that order
C18_DropKeysFirst ==
  /\ Assembled
       => /\ \A i \in DropKeyAt(queries) :
               \A j \in OwnAlterAt(queries, models[mi]) : i < j
          /\ OwnAlterAt(queries, models[mi]) = {Len(queries)}
          /\ DropKeyAt(queries) # {} => ChangesPrimaryKey(OwnAlter)
  /\ ExecutedAssembled
       => /\ Len(sent) >= Len(queries)
          /\ SubSeq(sent, Len(sent) - Len(queries) + 1, Len(sent)) = queries
          /\ \A i \in DropKeyAt(queries) :
               \A j \in OwnAlterAt(queries, models[mi - 1]) : i < j

\* C18 witness: a DROP KEY statement and the table's ALTER TABLE that changes
\* the primary key were executed
C18_Witness ==
  /\ ExecutedAssembled
  /\ DropKeyAt(queries) # {}
  /\ ChangesPrimaryKey(queries[Len(queries)])
  /\ Len(sent) >= 2
  /\ sent[Len(sent) - 1][3] = "\n\tDROP KEY "


\* C20: the ALTER TABLE statement handed to the confirmation for the table
\* at hand has at least one clause
C20_NoEmptyAlter ==
  Assembled => Heads(OwnAlter) # {}


\* ------------------------------------------------------ the query builder
MaxOps == 2

\* the objects the operators of a _SelectQuery are given: a table class, a
\* field, a tuple of values (v holds str() of each)
PyClass(name) == [k |-> "class", v |-> <<name>>]
PyField(name) == [k |-> "field", v |-> <<name>>]
PyTuple(ts) == [k |-> "tuple", v |-> ts]
\* the _SelectQuery itself, as what an operator returns
Self == [k |-> "self", v |-> <<>>]

Operands == {PyInt("1"), PyStr(<<"x">>), PyField("id")}
Conditions == {PyQuery(<<"id", " = ", "1">>), PyStr(<<"id > 1">>)}
Contained == {PyStr(<<"x">>), PyTuple(<<"1", "2">>), PyInt("1")}
FieldLists == {<<>>, <<"id">>, <<"id", "name">>}

\* the text of a comparison operator between its blanks
Comparison(op) ==
  CASE op = "=" -> " = " [] op = ">" -> " > " [] op = "<" -> " < "
    [] op = ">=" -> " >= " [] op = "<=" -> " <= " [] OTHER -> " != "

\* b.join(parts) of texts of one token each
RECURSIVE JoinWith(_, _)
JoinWith(b, parts) ==
  IF parts = <<>> THEN <<>>
  ELSE IF Len(parts) = 1 THEN parts[1]
  ELSE parts[1] \o <<b>> \o JoinWith(b, Tail(parts))

\* bool(q) of a _SelectQuery: __len__ is len(self.query.split())
QueryTruth(text) == \E i \in DOMAIN text : text[i] \notin {"", " "}

\* what __contains__ appends: LIKE for a str, IN for another iterable,
\* nothing for anything else
ContainsText(value) ==
  CASE value.k = "str" -> <<" LIKE \"%">> \o value.v \o <<"%\"">>
    [] value.k = "tuple" ->
         <<" IN (">> \o JoinWith(", ", [i \in DOMAIN value.v |-> <<value.v[i]>>])
         \o <<")">>
    [] OTHER -> <<>>

\* the operator op was applied with args: self.query is now text, and value
\* is what the caller got
Applied(op, args, text, value) ==
  /\ subject' = [query |-> text, n |-> subject.n + 1]
  /\ returned' = [op |-> op, args |-> args, before |-> subject.query,
                  value |-> value]
  /\ UNCHANGED <<ormvars, migvars>>

\* q == value and the other five comparisons
Compare ==
  /\ subject.n < MaxOps
  /\ \E op \in {"=", ">", "<", ">=", "<=", "!="}, value \in Operands :
       Applied(op, <<value>>, subject.query \o <<Comparison(op)>> \o Str(value),
               Self)

\* q & value
And ==
  /\ subject.n < MaxOps
  /\ \E value \in Operands \cup Conditions :
       Applied("AND", <<value>>, subject.query \o <<" AND ">> \o Str(value), Self)

\* q | value
Or ==
  /\ subject.n < MaxOps
  /\ \E value \in Operands \cup Conditions :
       Applied("OR", <<value>>, subject.query \o <<" OR ">> \o Str(value), Self)

\* ~q
Invert ==
  /\ subject.n < MaxOps
  /\ Applied("NOT", <<>>, <<"NOT ">> \o subject.query, Self)

\* q(*args)
CallQuery ==
  /\ subject.n < MaxOps
  /\ \E args \in FieldLists :
       Applied("call", <<PyTuple(args)>>,
               subject.query \o <<"(">>
               \o JoinWith(", ", [i \in DOMAIN args |-> <<"BQ", args[i], "BQ">>])
               \o <<")">>, Self)

\* value in q: the operator takes the truth of what __contains__ returns
Contains ==
  /\ subject.n < MaxOps
  /\ \E value \in Contained :
       Applied("in", <<value>>, subject.query \o ContainsText(value),
               PyBool(QueryTruth(subject.query \o ContainsText(value))))

\* q.from_(table)
From ==
  /\ subject.n < MaxOps
  /\ \E table \in Tables :
       Applied("from_", <<PyClass(table)>>, subject.query \o <<" FROM ", table>>,
               Self)

\* q.join(table)
JoinTable ==
  /\ subject.n < MaxOps
  /\ \E table \in Tables :
       Applied("join", <<PyClass(table)>>,
               subject.query \o <<" INNER JOIN ", table>>, Self)

\* q.on(condition)
On ==
  /\ subject.n < MaxOps
  /\ \E c \in Conditions :
       Applied("on", <<c>>, subject.query \o <<" ON ">> \o Str(c), Self)

\* q.where(condition)
Where ==
  /\ subject.n < MaxOps
  /\ \E c \in Conditions :
       Applied("where", <<c>>, subject.query \o <<" WHERE ">> \o Str(c), Self)

\* q.group_by(*args)
GroupBy ==
  /\ subject.n < MaxOps
  /\ \E args \in FieldLists :
       Applied("group_by", <<PyTuple(args)>>,
               subject.query \o <<" GROUP BY ">>
               \o JoinWith(", ", [i \in DOMAIN args |-> <<args[i]>>]), Self)

\* q.having(condition)
Having ==
  /\ subject.n < MaxOps
  /\ \E c \in Conditions :
       Applied("having", <<c>>, subject.query \o <<" HAVING ">> \o Str(c), Self)

\* q.order_by(field, descending)
OrderBy ==
  /\ subject.n < MaxOps
  /\ \E field \in {"id", "name"}, descending \in BOOLEAN :
       Applied("order_by", <<PyField(field), PyBool(descending)>>,
               subject.query \o <<" ORDER BY ", field>>
               \o (IF descending THEN <<" DESC">> ELSE <<>>), Self)

\* q.limit(limit)
Limit ==
  /\ subject.n < MaxOps
  /\ \E n \in {"1", "10"} :
       Applied("limit", <<PyInt(n)>>, subject.query \o <<" LIMIT ", n>>, Self)

\* q.offset(offset)
Offset ==
  /\ subject.n < MaxOps
  /\ \E n \in {"0", "10"} :
       Applied("offset", <<PyInt(n)>>, subject.query \o <<" OFFSET ", n>>, Self)

\* a program holds one _SelectQuery: _SelectQuery(), _SelectQuery(field) or
\* select()
QueryInit ==
  /\ OrmInit
  /\ models = <<>>
  /\ declared = <<>>
  /\ pc = "import"
  /\ NoRun
  /\ subject \in {[query |-> q, n |-> 0] :
                    q \in {<<>>, <<"id">>, <<"SELECT ", "*">>}}
  /\ returned = [op |-> "", args |-> <<>>, before |-> <<>>, value |-> Self]

QueryNext ==
  \/ Compare
  \/ And
  \/ Or
  \/ Invert
  \/ CallQuery
  \/ Contains
  \/ From
  \/ JoinTable
  \/ On
  \/ Where
  \/ GroupBy
  \/ Having
  \/ OrderBy
  \/ Limit
  \/ Offset

QuerySpec == QueryInit /\ [][QueryNext]_vars


\* the first piece of the text an operator is to append
Keyword(op) ==
  CASE op = "AND" -> " AND " [] op = "OR" -> " OR " [] op = "NOT" -> "NOT "
    [] op = "call" -> "(" [] op = "from_" -> " FROM "
    [] op = "join" -> " INNER JOIN " [] op = "on" -> " ON "
    [] op = "where" -> " WHERE " [] op = "group_by" -> " GROUP BY "
    [] op = "having" -> " HAVING " [] op = "order_by" -> " ORDER BY "
    [] op = "limit" -> " LIMIT " [] op = "offset" -> " OFFSET "
    [] op = "in" -> IF returned.args[1].k = "str" THEN " LIKE \"%" ELSE " IN ("
    [] OTHER -> Comparison(op)

\* C19: the operator last applied has left the text accumulated before it as
\* the beginning of the text, has appended its own text after it, and has
\* returned the accumulator it was applied to
C19_OperatorsAppend ==
  returned.op # "" =>
    /\ Len(subject.query) > Len(returned.before)
    /\ SubSeq(subject.query, 1, Len(returned.before)) = returned.before
    /\ subject.query[Len(returned.before) + 1] = Keyword(returned.op)
    /\ returned.value = Self

\* ------------------------------------------------------ the end of the run
\* every place where migrate() or _check_query asks the operator
Prompts == DecisionPrompts \cup {"confirm", "edit"}

\* the step is an abort decision: the answer abort at a prompt of the three
\* phases (lines 1096, 1111, 1129, 1144) or at "1). Execute 2). Modify query
\* 3). Abort" (line 1008)
AbortDecision ==
  /\ pc \in {"attr", "col", "fk", "confirm"}
  /\ outcome' \in {"aborted", "declined"}

\* the last thing the run did is an abort decision
AbortDecided == outcome \in {"aborted", "declined"}

\* C21: an abort decision taken during the migration of a table ends the
\* whole run of migrate(): the decision itself sends nothing, so that what
\* was executed and committed for the tables before stays as it is, and
\* after it no further table is introspected (no SHOW CREATE TABLE is sent),
\* no prompt is shown and no statement is sent
C21_AbortEndsRun ==
  /\ [][(AbortDecision) => (sent' = sent /\ commits' = commits)]_vars
  /\ [][(AbortDecided)
          => (/\ sent' = sent /\ commits' = commits
              /\ pc' \notin Prompts
              /\ mi' = mi)]_vars

====
